---------------------------- MODULE Spec2Model ----------------------------
(***************************************************************************)
(* A model of the retail support agent: the PII masking transform          *)
(* (masking.py), the nearest-store resolver (database.py), the retrieval   *)
(* index (rag.py) and the per-turn orchestration (streamlit_app.py).       *)
(*                                                                         *)
(* Text is a sequence of one-character strings, so that the regular        *)
(* expressions of mask_text and the str.replace calls are computed         *)
(* character by character, as Python computes them.                        *)
(***************************************************************************)
EXTENDS Integers, Sequences, FiniteSets, TLC

(***************************************************************************)
(* Characters and the character classes of the patterns of mask_text.      *)
(***************************************************************************)
Digit == {"0", "1", "2", "3", "4", "5", "6", "7", "8", "9"}

Lower == {"a", "b", "c", "d", "e", "f", "g", "h", "i", "j", "k", "l", "m",
          "n", "o", "p", "q", "r", "s", "t", "u", "v", "w", "x", "y", "z"}

Upper == {"A", "B", "C", "D", "E", "F", "G", "H", "I", "J", "K", "L", "M",
          "N", "O", "P", "Q", "R", "S", "T", "U", "V", "W", "X", "Y", "Z"}

\* \s of Python's re on str
Space == {" ", "\t", "\n", "\r", "\f"}

\* [-.\s]
Sep == {"-", "."} \cup Space

\* \w of Python's re on str (ASCII part)
WordChar == Digit \cup Lower \cup Upper \cup {"_"}

\* [A-Za-z0-9._%+-]
EmailLocal == Digit \cup Lower \cup Upper \cup {".", "_", "%", "+", "-"}

\* [A-Za-z0-9.-]
EmailDomain == Digit \cup Lower \cup Upper \cup {".", "-"}

\* [A-Z|a-z]
EmailTld == Lower \cup Upper \cup {"|"}

(***************************************************************************)
(* A pattern is a sequence of greedy quantified character classes          *)
(* [cls, min, max] (max = -1: no upper limit), with an optional \b at its  *)
(* start and at its end.  All six patterns of mask_text have this shape.   *)
(***************************************************************************)
Item(cls, min, max) == [cls |-> cls, min |-> min, max |-> max]

\* r'\+\d{1,3}[-.\s]?\d{3}[-.\s]?\d{4}'
PhoneShort ==
    [items |-> << Item({"+"}, 1, 1), Item(Digit, 1, 3), Item(Sep, 0, 1),
                  Item(Digit, 3, 3), Item(Sep, 0, 1), Item(Digit, 4, 4) >>,
     wbStart |-> FALSE, wbEnd |-> FALSE]

\* r'\+\d{1,3}[-.\s]?\(?\d{3}\)?[-.\s]?\d{3}[-.\s]?\d{4}'
PhoneIntl ==
    [items |-> << Item({"+"}, 1, 1), Item(Digit, 1, 3), Item(Sep, 0, 1),
                  Item({"("}, 0, 1), Item(Digit, 3, 3), Item({")"}, 0, 1),
                  Item(Sep, 0, 1), Item(Digit, 3, 3), Item(Sep, 0, 1),
                  Item(Digit, 4, 4) >>,
     wbStart |-> FALSE, wbEnd |-> FALSE]

\* r'\(\d{3}\)\s*\d{3}[-.\s]?\d{4}'
PhoneParen ==
    [items |-> << Item({"("}, 1, 1), Item(Digit, 3, 3), Item({")"}, 1, 1),
                  Item(Space, 0, -1), Item(Digit, 3, 3), Item(Sep, 0, 1),
                  Item(Digit, 4, 4) >>,
     wbStart |-> FALSE, wbEnd |-> FALSE]

\* r'\d{3}[-.\s]\d{3}[-.\s]\d{4}'
PhoneSeparated ==
    [items |-> << Item(Digit, 3, 3), Item(Sep, 1, 1), Item(Digit, 3, 3),
                  Item(Sep, 1, 1), Item(Digit, 4, 4) >>,
     wbStart |-> FALSE, wbEnd |-> FALSE]

\* r'\b\d{10}\b'
PhoneBare ==
    [items |-> << Item(Digit, 10, 10) >>, wbStart |-> TRUE, wbEnd |-> TRUE]

phone_patterns ==
    << PhoneShort, PhoneIntl, PhoneParen, PhoneSeparated, PhoneBare >>

\* r'\b[A-Za-z0-9._%+-]+@[A-Za-z0-9.-]+\.[A-Z|a-z]{2,}\b'
email_pattern ==
    [items |-> << Item(EmailLocal, 1, -1), Item({"@"}, 1, 1),
                  Item(EmailDomain, 1, -1), Item({"."}, 1, 1),
                  Item(EmailTld, 2, -1) >>,
     wbStart |-> TRUE, wbEnd |-> TRUE]

(***************************************************************************)
(* Matching, as Python's backtracking matcher does it: each quantifier     *)
(* takes as many characters as it can and gives them back one at a time    *)
(* while the rest of the pattern fails.  Positions count the characters    *)
(* consumed so far (0 .. Len(s)).                                          *)
(***************************************************************************)
IsWordAt(s, i) == i >= 1 /\ i <= Len(s) /\ s[i] \in WordChar

\* \b between s[pos] and s[pos+1]
AtBoundary(s, pos) == IsWordAt(s, pos) # IsWordAt(s, pos + 1)

RECURSIVE RunLen(_, _, _, _)
\* the number of consecutive characters of cls from pos on, at most max
RunLen(s, pos, cls, max) ==
    IF max = 0 \/ pos >= Len(s) \/ s[pos + 1] \notin cls
    THEN 0
    ELSE 1 + RunLen(s, pos + 1, cls, IF max = -1 THEN -1 ELSE max - 1)

RECURSIVE MatchItems(_, _, _, _)
RECURSIVE TryCount(_, _, _, _, _)
\* the end of the match of items k.. of pat from pos on, or -1
MatchItems(s, pat, k, pos) ==
    IF k > Len(pat.items)
    THEN IF pat.wbEnd => AtBoundary(s, pos) THEN pos ELSE -1
    ELSE TryCount(s, pat, k, pos,
                  RunLen(s, pos, pat.items[k].cls, pat.items[k].max))

TryCount(s, pat, k, pos, n) ==
    IF n < pat.items[k].min
    THEN -1
    ELSE LET r == MatchItems(s, pat, k + 1, pos + n)
         IN  IF r # -1 THEN r ELSE TryCount(s, pat, k, pos, n - 1)

MatchAt(s, pat, pos) ==
    IF pat.wbStart /\ ~AtBoundary(s, pos) THEN -1 ELSE MatchItems(s, pat, 1, pos)

RECURSIVE FindAllFrom(_, _, _)
FindAllFrom(pat, s, pos) ==
    IF pos >= Len(s)
    THEN << >>
    ELSE LET e == MatchAt(s, pat, pos)
         IN  IF e # -1
             THEN << SubSeq(s, pos + 1, e) >> \o FindAllFrom(pat, s, e)
             ELSE FindAllFrom(pat, s, pos + 1)

\* re.findall(pattern, string): the non-overlapping matches, left to right
findall(pat, s) == FindAllFrom(pat, s, 0)

(***************************************************************************)
(* str.find, str.replace and str.strip.                                    *)
(***************************************************************************)
RECURSIVE FindFrom(_, _, _)
\* the first index i >= from with s[i .. i+Len(old)-1] = old, or 0
FindFrom(s, old, from) ==
    IF from + Len(old) - 1 > Len(s)
    THEN 0
    ELSE IF SubSeq(s, from, from + Len(old) - 1) = old
         THEN from
         ELSE FindFrom(s, old, from + 1)

\* old in s
Contains(s, old) == FindFrom(s, old, 1) # 0

\* s.replace(old, new, 1)
ReplaceFirst(s, old, new) ==
    LET i == FindFrom(s, old, 1)
    IN  IF i = 0
        THEN s
        ELSE SubSeq(s, 1, i - 1) \o new \o SubSeq(s, i + Len(old), Len(s))

RECURSIVE ReplaceAllFrom(_, _, _, _)
ReplaceAllFrom(s, old, new, from) ==
    LET i == FindFrom(s, old, from)
    IN  IF i = 0
        THEN SubSeq(s, from, Len(s))
        ELSE SubSeq(s, from, i - 1) \o new
                 \o ReplaceAllFrom(s, old, new, i + Len(old))

\* s.replace(old, new, 1) in the place of s.replace(old, new)
ReplaceAll_OnlyFirst(s, old, new) == ReplaceFirst(s, old, new)

\* s.replace(old, new)
ReplaceAll(s, old, new) == ReplaceAllFrom(s, old, new, 1)

\* bool(s.strip())
StripNonEmpty(s) == \E i \in 1..Len(s) : s[i] \notin Space

(***************************************************************************)
(* str(n) for n >= 0, and the two placeholder formats.                     *)
(***************************************************************************)
DigitChar(d) ==
    << "0", "1", "2", "3", "4", "5", "6", "7", "8", "9" >>[d + 1]

RECURSIVE IntToStr(_)
IntToStr(n) ==
    IF n < 10 THEN << DigitChar(n) >>
    ELSE IntToStr(n \div 10) \o << DigitChar(n % 10) >>

\* f"[PHONE_{n}]"
PhonePlaceholder(n) ==
    << "[", "P", "H", "O", "N", "E", "_" >> \o IntToStr(n) \o << "]" >>

\* f"[EMAIL_{n}]"
EmailPlaceholder(n) ==
    << "[", "E", "M", "A", "I", "L", "_" >> \o IntToStr(n) \o << "]" >>

(***************************************************************************)
(* A dict is the sequence of its <<key, value>> pairs in insertion order.  *)
(***************************************************************************)
DictKeys(d) == { d[i][1] : i \in 1..Len(d) }

DictValues(d) == { d[i][2] : i \in 1..Len(d) }

DictHas(d, k) == \E i \in 1..Len(d) : d[i][1] = k

DictGet(d, k) == d[CHOOSE i \in 1..Len(d) : d[i][1] = k][2]

\* d[k] = v
DictSet(d, k, v) ==
    IF DictHas(d, k)
    THEN [i \in 1..Len(d) |-> IF d[i][1] = k THEN << k, v >> ELSE d[i]]
    ELSE Append(d, << k, v >>)

RECURSIVE DictUpdate(_, _)
\* d.update(e)
DictUpdate(d, e) ==
    IF e = << >> THEN d
    ELSE DictUpdate(DictSet(d, e[1][1], e[1][2]), Tail(e))

(***************************************************************************)
(* masking.py                                                              *)
(***************************************************************************)
\* None, where Python has it: no text is this sequence
None == << "None" >>

\* MaskPhone without the "phone_counter += 1" of line 48
MaskPhone_NoIncrement(st, phone) ==
    IF StripNonEmpty(phone) /\ phone \notin DictValues(st.mapping)
    THEN LET placeholder == PhonePlaceholder(st.phone_counter)
         IN  [masked_text |-> ReplaceFirst(st.masked_text, phone, placeholder),
              mapping |-> DictSet(st.mapping, placeholder, phone),
              phone_counter |-> st.phone_counter]
    ELSE st

\* lines 44-48: one phone of re.findall's list
MaskPhone(st, phone) ==
    IF StripNonEmpty(phone) /\ phone \notin DictValues(st.mapping)
    THEN LET placeholder == PhonePlaceholder(st.phone_counter)
         IN  [masked_text |-> ReplaceFirst(st.masked_text, phone, placeholder),
              mapping |-> DictSet(st.mapping, placeholder, phone),
              phone_counter |-> st.phone_counter + 1]
    ELSE st

RECURSIVE MaskPhones(_, _)
\* lines 42-48: for phone in phones
MaskPhones(st, phones) ==
    IF phones = << >> THEN st
    ELSE MaskPhones(MaskPhone(st, Head(phones)), Tail(phones))

RECURSIVE MaskPhonePatterns(_, _)
\* lines 40-48: for pattern in phone_patterns, over the current masked_text
MaskPhonePatterns(st, k) ==
    IF k > Len(phone_patterns) THEN st
    ELSE MaskPhonePatterns(
             MaskPhones(st, findall(phone_patterns[k], st.masked_text)), k + 1)

\* MaskEmail numbering the emails from 2 on
MaskEmail_SkipsOne(st, email, i) ==
    LET placeholder == EmailPlaceholder(i + 1)
    IN  [masked_text |-> ReplaceFirst(st.masked_text, email, placeholder),
         mapping |-> DictSet(st.mapping, placeholder, email)]

\* lines 55-57: one email of re.findall's list, the i-th
MaskEmail(st, email, i) ==
    LET placeholder == EmailPlaceholder(i)
    IN  [masked_text |-> ReplaceFirst(st.masked_text, email, placeholder),
         mapping |-> DictSet(st.mapping, placeholder, email)]

RECURSIVE MaskEmails(_, _, _)
\* lines 54-57: for i, email in enumerate(emails, 1)
MaskEmails(st, emails, i) ==
    IF emails = << >> THEN st
    ELSE MaskEmails(MaskEmail(st, Head(emails), i), Tail(emails), i + 1)

\* mask_text(text): <<masked_text, mapping>>
mask_text(text) ==
    LET p == MaskPhonePatterns(
                 [masked_text |-> text, mapping |-> << >>, phone_counter |-> 1], 1)
        e == MaskEmails([masked_text |-> p.masked_text, mapping |-> p.mapping],
                        findall(email_pattern, p.masked_text), 1)
    IN  << e.masked_text, e.mapping >>

\* re.findall(pattern, None) raises TypeError
mask_text_raises(text) == text = None

RECURSIVE unmask_text(_, _)
\* unmask_text(text, mapping): every key replaced everywhere, in dict order
unmask_text(text, mapping) ==
    IF mapping = << >> THEN text
    ELSE unmask_text(ReplaceAll(text, mapping[1][1], mapping[1][2]),
                     Tail(mapping))

(***************************************************************************)
(* database.py: the nearest-store resolver.                                *)
(*                                                                         *)
(* A nullable REAL column holds Null or Real(n); coordinates are in units  *)
(* of 0.0001 degree and distances in tenths of a metre (calculate_distance *)
(* rounds to one decimal).                                                 *)
(***************************************************************************)
Null == << >>

Real(n) == << n >>

\* Python's "not x" for a nullable number: None and 0.0 are both falsy
Falsy(x) == x = Null \/ x = Real(0)

\* calculate_distance at the coordinates of the model: the values the
\* haversine computation of lines 281-294 returns there
HaversineTable ==
    (<< 407589, -739851, 407589, -739851 >> :> 0) @@
    (<< 407589, -739851, 407829, -739654 >> :> 31423) @@
    (<< 407589, -739851, 407549, -739840 >> :> 4543) @@
    (<< 407589, -739851, 407592, -739855 >> :> 474) @@
    (<< 407589, -739851, 407545, -739835 >> :> 5075) @@
    (<< 407589, -739851, 0, -739851 >> :> 45321829) @@
    (<< 407589, -739851, 0, 0 >> :> 86662804) @@
    (<< 407589, -739851, 210425, 1680484 >> :> 106271839) @@
    (<< 407589, -739851, -210425, -119516 >> :> 93879029) @@
    (<< 407589, -739851, 533165, -869685 >> :> 17024331) @@
    (<< 407589, -739851, -533165, 930315 >> :> 183126536) @@
    (<< 407589, -739851, 900000, 0 >> :> 54753605) @@
    (<< 407829, -739654, 407589, -739851 >> :> 31423) @@
    (<< 407829, -739654, 407829, -739654 >> :> 0) @@
    (<< 407829, -739654, 407549, -739840 >> :> 34853) @@
    (<< 407829, -739654, 407592, -739855 >> :> 31321) @@
    (<< 407829, -739654, 407545, -739835 >> :> 35066) @@
    (<< 407829, -739654, 0, -739851 >> :> 45348520) @@
    (<< 407829, -739654, 0, 0 >> :> 86651418) @@
    (<< 407829, -739654, 210425, 1680484 >> :> 106270620) @@
    (<< 407829, -739654, -210425, -119516 >> :> 93880248) @@
    (<< 407829, -739654, 533165, -869685 >> :> 17009801) @@
    (<< 407829, -739654, -533165, 930315 >> :> 183141067) @@
    (<< 407829, -739654, 900000, 0 >> :> 54726918) @@
    (<< 407549, -739840, 407589, -739851 >> :> 4543) @@
    (<< 407549, -739840, 407829, -739654 >> :> 34853) @@
    (<< 407549, -739840, 407549, -739840 >> :> 0) @@
    (<< 407549, -739840, 407592, -739855 >> :> 4945) @@
    (<< 407549, -739840, 407545, -739835 >> :> 613) @@
    (<< 407549, -739840, 0, -739851 >> :> 45317381) @@
    (<< 407549, -739840, 0, 0 >> :> 86661074) @@
    (<< 407549, -739840, 210425, 1680484 >> :> 106275099) @@
    (<< 407549, -739840, -210425, -119516 >> :> 93875769) @@
    (<< 407549, -739840, 533165, -869685 >> :> 17028633) @@
    (<< 407549, -739840, -533165, 930315 >> :> 183122235) @@
    (<< 407549, -739840, 900000, 0 >> :> 54758053) @@
    (<< 407592, -739855, 407589, -739851 >> :> 474) @@
    (<< 407592, -739855, 407829, -739654 >> :> 31321) @@
    (<< 407592, -739855, 407549, -739840 >> :> 4945) @@
    (<< 407592, -739855, 407592, -739855 >> :> 0) @@
    (<< 407592, -739855, 407545, -739835 >> :> 5491) @@
    (<< 407592, -739855, 0, -739851 >> :> 45322163) @@
    (<< 407592, -739855, 0, 0 >> :> 86663196) @@
    (<< 407592, -739855, 210425, 1680484 >> :> 106271373) @@
    (<< 407592, -739855, -210425, -119516 >> :> 93879495) @@
    (<< 407592, -739855, 533165, -869685 >> :> 17023873) @@
    (<< 407592, -739855, -533165, 930315 >> :> 183126995) @@
    (<< 407592, -739855, 900000, 0 >> :> 54753271) @@
    (<< 407545, -739835, 407589, -739851 >> :> 5075) @@
    (<< 407545, -739835, 407829, -739654 >> :> 35066) @@
    (<< 407545, -739835, 407549, -739840 >> :> 613) @@
    (<< 407545, -739835, 407592, -739855 >> :> 5491) @@
    (<< 407545, -739835, 407545, -739835 >> :> 0) @@
    (<< 407545, -739835, 0, -739851 >> :> 45316936) @@
    (<< 407545, -739835, 0, 0 >> :> 86660578) @@
    (<< 407545, -739835, 210425, 1680484 >> :> 106275697) @@
    (<< 407545, -739835, -210425, -119516 >> :> 93875171) @@
    (<< 407545, -739835, 533165, -869685 >> :> 17029230) @@
    (<< 407545, -739835, -533165, 930315 >> :> 183121638) @@
    (<< 407545, -739835, 900000, 0 >> :> 54758498) @@
    (<< 0, -739851, 407589, -739851 >> :> 45321829) @@
    (<< 0, -739851, 407829, -739654 >> :> 45348520) @@
    (<< 0, -739851, 407549, -739840 >> :> 45317381) @@
    (<< 0, -739851, 407592, -739855 >> :> 45322163) @@
    (<< 0, -739851, 407545, -739835 >> :> 45316936) @@
    (<< 0, -739851, 0, -739851 >> :> 0) @@
    (<< 0, -739851, 0, 0 >> :> 82267678) @@
    (<< 0, -739851, 210425, 1680484 >> :> 128937321) @@
    (<< 0, -739851, -210425, -119516 >> :> 71213547) @@
    (<< 0, -739851, 533165, -869685 >> :> 60490119) @@
    (<< 0, -739851, -533165, 930315 >> :> 139660749) @@
    (<< 0, -739851, 900000, 0 >> :> 100075434) @@
    (<< 0, 0, 407589, -739851 >> :> 86662804) @@
    (<< 0, 0, 407829, -739654 >> :> 86651418) @@
    (<< 0, 0, 407549, -739840 >> :> 86661074) @@
    (<< 0, 0, 407592, -739855 >> :> 86663196) @@
    (<< 0, 0, 407545, -739835 >> :> 86660578) @@
    (<< 0, 0, 0, -739851 >> :> 82267678) @@
    (<< 0, 0, 0, 0 >> :> 0) @@
    (<< 0, 0, 210425, 1680484 >> :> 173391706) @@
    (<< 0, 0, -210425, -119516 >> :> 26759162) @@
    (<< 0, 0, 533165, -869685 >> :> 98062298) @@
    (<< 0, 0, -533165, 930315 >> :> 102088570) @@
    (<< 0, 0, 900000, 0 >> :> 100075434) @@
    (<< 210425, 1680484, 407589, -739851 >> :> 106271839) @@
    (<< 210425, 1680484, 407829, -739654 >> :> 106270620) @@
    (<< 210425, 1680484, 407549, -739840 >> :> 106275099) @@
    (<< 210425, 1680484, 407592, -739855 >> :> 106271373) @@
    (<< 210425, 1680484, 407545, -739835 >> :> 106275697) @@
    (<< 210425, 1680484, 0, -739851 >> :> 128937321) @@
    (<< 210425, 1680484, 0, 0 >> :> 173391706) @@
    (<< 210425, 1680484, 210425, 1680484 >> :> 0) @@
    (<< 210425, 1680484, 533165, -869685 >> :> 90882050) @@
    (<< 210425, 1680484, -533165, 930315 >> :> 109268818) @@
    (<< 210425, 1680484, 900000, 0 >> :> 76677242) @@
    (<< -210425, -119516, 407589, -739851 >> :> 93879029) @@
    (<< -210425, -119516, 407829, -739654 >> :> 93880248) @@
    (<< -210425, -119516, 407549, -739840 >> :> 93875769) @@
    (<< -210425, -119516, 407592, -739855 >> :> 93879495) @@
    (<< -210425, -119516, 407545, -739835 >> :> 93875171) @@
    (<< -210425, -119516, 0, -739851 >> :> 71213547) @@
    (<< -210425, -119516, 0, 0 >> :> 26759162) @@
    (<< -210425, -119516, -210425, -119516 >> :> 0) @@
    (<< -210425, -119516, 533165, -869685 >> :> 109268818) @@
    (<< -210425, -119516, -533165, 930315 >> :> 90882050) @@
    (<< -210425, -119516, 900000, 0 >> :> 123473626) @@
    (<< 533165, -869685, 407589, -739851 >> :> 17024331) @@
    (<< 533165, -869685, 407829, -739654 >> :> 17009801) @@
    (<< 533165, -869685, 407549, -739840 >> :> 17028633) @@
    (<< 533165, -869685, 407592, -739855 >> :> 17023873) @@
    (<< 533165, -869685, 407545, -739835 >> :> 17029230) @@
    (<< 533165, -869685, 0, -739851 >> :> 60490119) @@
    (<< 533165, -869685, 0, 0 >> :> 98062298) @@
    (<< 533165, -869685, 210425, 1680484 >> :> 90882050) @@
    (<< 533165, -869685, -210425, -119516 >> :> 109268818) @@
    (<< 533165, -869685, 533165, -869685 >> :> 0) @@
    (<< 533165, -869685, -533165, 930315 >> :> 200150868) @@
    (<< 533165, -869685, 900000, 0 >> :> 40790191) @@
    (<< -533165, 930315, 407589, -739851 >> :> 183126536) @@
    (<< -533165, 930315, 407829, -739654 >> :> 183141067) @@
    (<< -533165, 930315, 407549, -739840 >> :> 183122235) @@
    (<< -533165, 930315, 407592, -739855 >> :> 183126995) @@
    (<< -533165, 930315, 407545, -739835 >> :> 183121638) @@
    (<< -533165, 930315, 0, -739851 >> :> 139660749) @@
    (<< -533165, 930315, 0, 0 >> :> 102088570) @@
    (<< -533165, 930315, 210425, 1680484 >> :> 109268818) @@
    (<< -533165, 930315, -210425, -119516 >> :> 90882050) @@
    (<< -533165, 930315, 533165, -869685 >> :> 200150868) @@
    (<< -533165, 930315, -533165, 930315 >> :> 0) @@
    (<< -533165, 930315, 900000, 0 >> :> 159360677) @@
    (<< 900000, 0, 407589, -739851 >> :> 54753605) @@
    (<< 900000, 0, 407829, -739654 >> :> 54726918) @@
    (<< 900000, 0, 407549, -739840 >> :> 54758053) @@
    (<< 900000, 0, 407592, -739855 >> :> 54753271) @@
    (<< 900000, 0, 407545, -739835 >> :> 54758498) @@
    (<< 900000, 0, 0, -739851 >> :> 100075434) @@
    (<< 900000, 0, 0, 0 >> :> 100075434) @@
    (<< 900000, 0, 210425, 1680484 >> :> 76677242) @@
    (<< 900000, 0, -210425, -119516 >> :> 123473626) @@
    (<< 900000, 0, 533165, -869685 >> :> 40790191) @@
    (<< 900000, 0, -533165, 930315 >> :> 159360677) @@
    (<< 900000, 0, 900000, 0 >> :> 0)

\* the coordinates of the model at which math.sqrt(1 - a) of line 291 raises
\* ValueError: a is above 1 there
HaversineDomainErrors ==
    { << 210425, 1680484, -210425, -119516 >>,
      << -210425, -119516, 210425, 1680484 >> }

\* math.radians(None) raises TypeError (lines 284-287)
calculate_distance_raises(lat1, lon1, lat2, lon2) ==
    Null \in {lat1, lon1, lat2, lon2}

calculate_distance_domain_error(lat1, lon1, lat2, lon2) ==
    << lat1[1], lon1[1], lat2[1], lon2[1] >> \in HaversineDomainErrors

calculate_distance(lat1, lon1, lat2, lon2) ==
    HaversineTable[<< lat1[1], lon1[1], lat2[1], lon2[1] >>]

\* what a function of database.py or rag.py gives its caller
EmptyDict == [kind |-> "empty"]

Raised(e) == [kind |-> "raised", error |-> e]

\* dict(store) with store_dict["distance_m"] = d
StoreDict(store, d) == [kind |-> "store", store |-> store, distance_m |-> d]

\* the sentinel of line 324, distance_m = 50, in tenths of a metre
DefaultDistance == 500

\* float('inf') of line 341
Infinity == << >>

\* distance < min_distance
FloatLess(distance, min_distance) ==
    min_distance = Infinity \/ distance < min_distance[1]

\* cursor.fetchone() of "SELECT ... FROM customers WHERE id = ?"
FetchCustomer(customers, customer_id) ==
    IF \E i \in 1..Len(customers) : customers[i].id = customer_id
    THEN customers[CHOOSE i \in 1..Len(customers) :
                       customers[i].id = customer_id]
    ELSE Null

RECURSIVE ScanStores(_, _, _, _, _)
\* lines 343-354: the scan, from store k on
ScanStores(customer_lat, customer_lon, stores, k, best) ==
    IF k > Len(stores)
    THEN best.nearest_store
    ELSE IF calculate_distance_raises(customer_lat, customer_lon,
                                      stores[k].latitude, stores[k].longitude)
         THEN Raised("TypeError")
         ELSE LET distance ==
                      calculate_distance(customer_lat, customer_lon,
                                         stores[k].latitude,
                                         stores[k].longitude)
              IN  IF FloatLess(distance, best.min_distance)
                  THEN ScanStores(customer_lat, customer_lon, stores, k + 1,
                                  [nearest_store |-> StoreDict(stores[k], distance),
                                   min_distance |-> Real(distance)])
                  ELSE ScanStores(customer_lat, customer_lon, stores, k + 1,
                                  best)

\* line 314: the customer is missing or a coordinate is falsy
TakesFallback(customer_row) ==
    \/ customer_row = Null
    \/ Falsy(customer_row.latitude)
    \/ Falsy(customer_row.longitude)

\* get_nearest_store_for_customer without the "if not stores" of line 336
get_nearest_store_NoEmptyCheck(customers, stores, customer_id) ==
    LET customer_row == FetchCustomer(customers, customer_id)
    IN  IF TakesFallback(customer_row)
        THEN IF stores = << >>
             THEN EmptyDict
             ELSE StoreDict(stores[1], DefaultDistance)
        ELSE ScanStores(customer_row.latitude, customer_row.longitude,
                        stores, 1,
                        [nearest_store |-> Null, min_distance |-> Infinity])

\* get_nearest_store_for_customer(customer_id) on the two tables
get_nearest_store_for_customer(customers, stores, customer_id) ==
    LET customer_row == FetchCustomer(customers, customer_id)
    IN  IF TakesFallback(customer_row)
        THEN IF stores = << >>
             THEN EmptyDict
             ELSE StoreDict(stores[1], DefaultDistance)
        ELSE IF stores = << >>
             THEN EmptyDict
             ELSE ScanStores(customer_row.latitude, customer_row.longitude,
                             stores, 1,
                             [nearest_store |-> Null,
                              min_distance |-> Infinity])

(***************************************************************************)
(* The texts the masking functions are applied to: every concatenation of  *)
(* at most MaxPieces pieces of Vocabulary.  The pieces are one phone per   *)
(* phone pattern (the "+1-" prefix turns the separated form into the       *)
(* international one), an email, a blank, a letter (it extends an email    *)
(* and breaks a \b) and the two placeholder shapes.                        *)
(***************************************************************************)
MaxPieces == 3

Vocabulary ==
    { << "+", "1", "-", "5", "5", "5", "-", "0", "1", "0", "1" >>,
      << "5", "5", "5", "-", "1", "2", "3", "-", "4", "5", "6", "7" >>,
      << "(", "5", "5", "5", ")", " ", "1", "2", "3", "-", "4", "5", "6", "7" >>,
      << "5", "5", "5", "1", "2", "3", "4", "5", "6", "7" >>,
      << "a", "@", "b", ".", "c", "o" >>,
      << " " >>,
      << "x" >>,
      << "+", "1", "-" >>,
      << "[", "P", "H", "O", "N", "E", "_", "1", "]" >>,
      << "[", "E", "M", "A", "I", "L", "_", "1", "]" >> }

RECURSIVE Concats(_)
Concats(n) ==
    IF n = 0 THEN { << >> }
    ELSE LET shorter == Concats(n - 1)
         IN  shorter \cup { t \o v : t \in shorter, v \in Vocabulary }

Texts == Concats(MaxPieces)

\* r'\[PHONE_\d+\]' and r'\[EMAIL_\d+\]': the shape of a placeholder
PhoneShape ==
    [items |-> << Item({"["}, 1, 1), Item({"P"}, 1, 1), Item({"H"}, 1, 1),
                  Item({"O"}, 1, 1), Item({"N"}, 1, 1), Item({"E"}, 1, 1),
                  Item({"_"}, 1, 1), Item(Digit, 1, -1), Item({"]"}, 1, 1) >>,
     wbStart |-> FALSE, wbEnd |-> FALSE]

EmailShape ==
    [items |-> << Item({"["}, 1, 1), Item({"E"}, 1, 1), Item({"M"}, 1, 1),
                  Item({"A"}, 1, 1), Item({"I"}, 1, 1), Item({"L"}, 1, 1),
                  Item({"_"}, 1, 1), Item(Digit, 1, -1), Item({"]"}, 1, 1) >>,
     wbStart |-> FALSE, wbEnd |-> FALSE]

\* a placeholder whose number has the ten digits of a phone
LongPlaceholder ==
    << "[", "P", "H", "O", "N", "E", "_",
       "5", "5", "5", "1", "2", "3", "4", "5", "6", "7", "]" >>

\* texts that hold LongPlaceholder, between up to one piece on each side
PlaceholderTexts == { t \o LongPlaceholder \o u : t, u \in Concats(1) }

HasPlaceholderShape(t) ==
    findall(PhoneShape, t) # << >> \/ findall(EmailShape, t) # << >>

(***************************************************************************)
(* The database the resolver reads.  customers holds a customer near the   *)
(* first store, one near the third, one without latitude, one without      *)
(* longitude and one on the equator (latitude 0.0); id 9 is in no row.  A   *)
(* stores table is any selection of StoreCandidates in rowid order, which   *)
(* is the order of both SELECTs: three stores at different places, a       *)
(* fourth at the place of the first, and a fifth without latitude.         *)
(***************************************************************************)
Customer(id, phone, email, latitude, longitude) ==
    [id |-> id, phone |-> phone, email |-> email,
     latitude |-> latitude, longitude |-> longitude]

CustomersTable ==
    << Customer(1, << "+", "1", "-", "5", "5", "5", "-", "0", "1", "0", "1" >>,
                << "a", "@", "b", ".", "c", "o" >>,
                Real(407592), Real(-739855)),
       Customer(2, << "5", "5", "5", "-", "1", "2", "3", "-", "4", "5", "6", "7" >>,
                None, Real(407545), Real(-739835)),
       Customer(3, << "+", "1", "-", "5", "5", "5", "-", "0", "1", "0", "1" >>,
                << "x", "a", "@", "b", ".", "c", "o" >>,
                Null, Real(-739855)),
       Customer(4, << "5", "5", "5", "1", "2", "3", "4", "5", "6", "7" >>,
                << "a", "@", "b", ".", "c", "o" >>,
                Real(407592), Null),
       Customer(5, << "(", "5", "5", "5", ")", " ", "1", "2", "3", "-", "4", "5", "6", "7" >>,
                << "a", "@", "b", ".", "c", "o" >>,
                Real(0), Real(-739851)) >>

CustomerIds == {1, 2, 3, 4, 5, 9}

Store(id, latitude, longitude) ==
    [id |-> id, latitude |-> latitude, longitude |-> longitude]

StoreCandidates ==
    << Store(1, Real(407589), Real(-739851)),
       Store(2, Real(407829), Real(-739654)),
       Store(3, Real(407549), Real(-739840)),
       Store(4, Real(407589), Real(-739851)),
       Store(5, Null, Real(-739840)) >>

RECURSIVE SelectStores(_, _)
\* the rows of StoreCandidates whose id is in ids, from row k on
SelectStores(ids, k) ==
    IF k > Len(StoreCandidates) THEN << >>
    ELSE (IF StoreCandidates[k].id \in ids
          THEN << StoreCandidates[k] >> ELSE << >>)
             \o SelectStores(ids, k + 1)

StoreTables ==
    { SelectStores(ids, 1) :
          ids \in SUBSET { StoreCandidates[k].id : k \in 1..Len(StoreCandidates) } }

(***************************************************************************)
(* rag.py: the corpus directory and the collection.                        *)
(*                                                                         *)
(* A file of PDF_DIR has a suffix, loads or fails to load (the loader      *)
(* raises, lines 59-69), and splits into nchunks chunks.  UserFiles are    *)
(* the files a user may put there: a short text, a PDF of more chunks than *)
(* one batch, and a PDF that does not load.  SampleFiles are the files of  *)
(* _create_sample_documents with the chunk counts the splitter gives them  *)
(* at CHUNK_SIZE 500 and CHUNK_OVERLAP 50.                                 *)
(***************************************************************************)
\* batch_size of line 96
BatchSize == 100

\* TOP_K_RAG of config.py
TOP_K_RAG == 4

File(name, suffix, loadable, nchunks) ==
    [name |-> name, suffix |-> suffix, loadable |-> loadable,
     nchunks |-> nchunks]

UserFiles ==
    { File("manual.pdf", ".pdf", TRUE, BatchSize + 1),
      File("scan.pdf", ".pdf", FALSE, 0),
      File("notes.txt", ".txt", TRUE, 2) }

SampleFiles ==
    { File("menu.txt", ".txt", TRUE, 1),
      File("store_policies.txt", ".txt", TRUE, 2),
      File("refund_faqs.txt", ".txt", TRUE, 2) }

\* the order in which a glob lists the files of the directory
DirOrder ==
    << "manual.pdf", "scan.pdf", "menu.txt", "notes.txt", "refund_faqs.txt",
       "store_policies.txt" >>

RECURSIVE GlobFrom(_, _, _)
GlobFrom(dir, suffix, k) ==
    IF k > Len(DirOrder) THEN << >>
    ELSE (IF \E f \in dir : f.name = DirOrder[k] /\ f.suffix = suffix
          THEN << CHOOSE f \in dir : f.name = DirOrder[k] >>
          ELSE << >>) \o GlobFrom(dir, suffix, k + 1)

\* list(pdf_path.glob("*" + suffix))
Glob(dir, suffix) == GlobFrom(dir, suffix, 1)

\* line 51: the PDF files, then the text files
ListFiles(dir) == Glob(dir, ".pdf") \o Glob(dir, ".txt")

\* the chunks of one file: <<name, 1>> .. <<name, nchunks>>
FileChunks(f) == [j \in 1..f.nchunks |-> << f.name, j >>]

RECURSIVE LoadAndSplit(_)
\* lines 58-82: the chunks of the files that load, in order
LoadAndSplit(files) ==
    IF files = << >> THEN << >>
    ELSE (IF Head(files).loadable THEN FileChunks(Head(files)) ELSE << >>)
             \o LoadAndSplit(Tail(files))

\* the files a build reads when it never writes the sample documents
FilesRead_NoSamples(dir) == ListFiles(dir)

\* lines 52-56: the files a build reads, after the samples were written
\* into a directory without PDF or text file
FilesRead(dir) ==
    IF ListFiles(dir) = << >> THEN Glob(dir \cup SampleFiles, ".txt")
    ELSE ListFiles(dir)

\* the directory after lines 52-56
DirAfterSamples(dir) ==
    IF ListFiles(dir) = << >> THEN dir \cup SampleFiles ELSE dir

\* the collection of the persistent client: absent, or its documents by id
NoCollection == [exists |-> FALSE, docs |-> { }]

EmptyCollection == [exists |-> TRUE, docs |-> { }]

\* lines 97-109: the batch of chunks i+1 .. i+batch_size, ids doc_{i+j}
Batch(chunks, i) ==
    { [id |-> k - 1, document |-> chunks[k]] :
          k \in (i + 1)..(IF i + BatchSize < Len(chunks)
                          THEN i + BatchSize ELSE Len(chunks)) }

\* the collection a build that ran to its end leaves for the files of dir
BuiltCollection(dir) ==
    LET chunks == LoadAndSplit(FilesRead(dir))
    IN  [exists |-> TRUE,
         docs |-> { [id |-> k - 1, document |-> chunks[k]] : k \in 1..Len(chunks) }]

\* what retrieve returns: a list, of which the model keeps the length (the
\* ranking is the embedding model's)
RetrievedList(n) == [kind |-> "list", len |-> n]

\* retrieve without the try/except of lines 198-202 around get_collection
retrieve_NoTry(coll, k) ==
    IF ~coll.exists
    THEN { Raised("get_collection") }
    ELSE { Raised("encode"),
           RetrievedList(IF Cardinality(coll.docs) < k
                         THEN Cardinality(coll.docs) ELSE k) }

\* RAGSystem.retrieve(query, k) on a collection: the results it can give
retrieve(coll, k) ==
    IF ~coll.exists
    THEN { RetrievedList(0) }
    ELSE { Raised("encode"),
           RetrievedList(IF Cardinality(coll.docs) < k
                         THEN Cardinality(coll.docs) ELSE k) }

(***************************************************************************)
(* The functions process_message calls, and its own exception handler.     *)
(***************************************************************************)
\* get_customer_context(customer_id): {} when no row has the id, else the
\* row (the orders and coupons hold no phone, email or coordinate)
get_customer_context(customers, customer_id) ==
    LET customer == FetchCustomer(customers, customer_id)
    IN  IF customer = Null
        THEN EmptyDict
        ELSE [kind |-> "customer", id |-> customer.id,
              phone |-> customer.phone, email |-> customer.email,
              latitude |-> customer.latitude,
              longitude |-> customer.longitude]

\* mask_customer_context with masked_context = context in place of
\* context.copy(): the fields are assigned in the caller's dict
mask_customer_context_NoCopy(context) ==
    IF context = EmptyDict
    THEN [kind |-> "masked", context |-> context, mapping |-> << >>,
          input |-> context]
    ELSE IF mask_text_raises(context.phone)
    THEN [kind |-> "raised", error |-> "TypeError", input |-> context]
    ELSE IF mask_text_raises(context.email)
    THEN [kind |-> "raised", error |-> "TypeError",
          input |-> [context EXCEPT !.phone = mask_text(context.phone)[1]]]
    ELSE LET phone == mask_text(context.phone)
             email == mask_text(context.email)
             masked_context == [context EXCEPT !.phone = phone[1],
                                               !.email = email[1]]
         IN  [kind |-> "masked",
              context |-> masked_context,
              mapping |-> DictUpdate(DictUpdate(<< >>, phone[2]), email[2]),
              input |-> masked_context]

\* mask_customer_context(context): a copy of the context with phone and
\* email masked, and the union of the two tables; re.findall raises on a
\* None field.  input is the caller's dict as the call leaves it
mask_customer_context(context) ==
    IF context = EmptyDict
    THEN [kind |-> "masked", context |-> context, mapping |-> << >>,
          input |-> context]
    ELSE IF mask_text_raises(context.phone) \/ mask_text_raises(context.email)
    THEN [kind |-> "raised", error |-> "TypeError", input |-> context]
    ELSE LET phone == mask_text(context.phone)
             email == mask_text(context.email)
         IN  [kind |-> "masked",
              context |-> [context EXCEPT !.phone = phone[1],
                                          !.email = email[1]],
              mapping |-> DictUpdate(DictUpdate(<< >>, phone[2]), email[2]),
              input |-> context]

\* build_prompt: the sections of the user prompt.  The customer section
\* holds name, loyalty level, preferred drink, orders and coupons (the id
\* stands for them), never the phone and email fields
build_prompt(customer_ctx, store_ctx, rag_docs, user_message) ==
    [kind |-> "prompt",
     customer |-> IF customer_ctx = EmptyDict THEN EmptyDict
                  ELSE [kind |-> "customer", id |-> customer_ctx.id],
     store |-> store_ctx,
     documents |-> rag_docs,
     message |-> user_message]

RECURSIVE LStrip(_)
LStrip(s) ==
    IF s # << >> /\ s[1] \in Space THEN LStrip(Tail(s)) ELSE s

RECURSIVE RStrip(_)
RStrip(s) ==
    IF s # << >> /\ s[Len(s)] \in Space
    THEN RStrip(SubSeq(s, 1, Len(s) - 1)) ELSE s

\* str.strip()
Strip(s) == RStrip(LStrip(s))

\* "\n".join(user_prompt_parts): a header stands for the lines of its
\* section, and the message is the last line
user_prompt_text(p) ==
    (IF p.customer # EmptyDict THEN << "=== CUSTOMER CONTEXT ===" >> ELSE << >>)
        \o (IF p.store # EmptyDict THEN << "=== NEARBY STORE ===" >> ELSE << >>)
        \o (IF p.documents.len > 0
            THEN << "=== RELEVANT INFORMATION ===" >> ELSE << >>)
        \o << "=== CUSTOMER MESSAGE ===" >> \o p.message

\* str(e): the text of an exception that carries one, else the fixed
\* message of its type
Str(e) == IF "text" \in DOMAIN e THEN e.text ELSE << e.error >>

\* what the provider does with a chat completion: it fails, with a message
\* of its own or one that quotes the request, or it streams fragments
ProviderError(quotes) ==
    [kind |-> "raised", error |-> "APIError", quotes |-> quotes]

Completion(fragments) == [kind |-> "stream", fragments |-> fragments]

Completions ==
    { ProviderError(FALSE),
      ProviderError(TRUE),
      Completion(<< << " ", "x" >> >>),
      Completion(<< << "[", "P", "H", "O" >>,
                    << "N", "E", "_", "1", "]", " " >> >>),
      Completion(<< EmailPlaceholder(1) \o << " " >>, << >>,
                    PhonePlaceholder(2) >>) }

\* str(e) of the provider's exception for the request with user_prompt
provider_error_text(completion, user_prompt) ==
    IF completion.quotes
    THEN << "Error code: 400 - " >> \o user_prompt
    ELSE << "Connection error." >>

\* full_response = delta.content in place of +=: the last fragment only
full_response_Overwrite(fragments) ==
    IF fragments = << >> THEN << >> ELSE fragments[Len(fragments)]

RECURSIVE full_response(_)
\* lines 112-117: full_response += delta.content, for every fragment with
\* content
full_response(fragments) ==
    IF fragments = << >> THEN << >>
    ELSE fragments[1] \o full_response(Tail(fragments))

\* a variant that sends the request again when the provider fails
llm_requests_Retry(api_key, user_prompt, completion) ==
    IF ~api_key THEN << >>
    ELSE IF completion.kind = "raised"
    THEN << [user_prompt |-> user_prompt, completion |-> completion],
            [user_prompt |-> user_prompt, completion |-> completion] >>
    ELSE << [user_prompt |-> user_prompt, completion |-> completion] >>

\* the requests call_llm_with_system sends to the provider: validation
\* raises before any is sent
llm_requests(api_key, user_prompt, completion) ==
    IF ~api_key THEN << >>
    ELSE << [user_prompt |-> user_prompt, completion |-> completion] >>

\* call_llm_with_system: RuntimeError without the key, the provider's
\* failure wrapped in an Exception that quotes it, else the streamed
\* fragments, concatenated and stripped
call_llm_with_system(api_key, user_prompt, completion) ==
    IF ~api_key THEN Raised("RuntimeError")
    ELSE IF completion.kind = "raised"
    THEN [kind |-> "raised", error |-> "Exception",
          text |-> << "Error calling Groq API: " >>
                       \o provider_error_text(completion, user_prompt)]
    ELSE [kind |-> "text", text |-> Strip(full_response(completion.fragments))]

\* a call process_message makes
Call(fn, arg, raised) == [fn |-> fn, arg |-> arg, raised |-> raised]

\* return response
Response(text) == [kind |-> "response", text |-> text]

\* the apology string, which quotes str(e)
Apology(e) ==
    [kind |-> "apology", error |-> e.error,
     text |-> << "I apologize, but I encountered an error: " >> \o Str(e)
                  \o << "\n\nPlease make sure your GROQ_API_KEY is set in the .env file." >>]

\* process_message without its "except Exception": the exception leaves it
process_message_NoExcept(e) == Raised(e.error)

\* lines 172-173: except Exception as e: return the apology
process_message_except(e) == Apology(e)

\* process_message as one step: what the call returns for the key, the
\* tables of the database, the documents the retrieval gave and the
\* completion of the provider.  carried is what the table of the turn holds
\* before mask_text fills it
process_message_from(carried, api_key, customers, stores, rag_docs, completion, user_message, customer_id) ==
    LET customer_ctx == get_customer_context(customers, customer_id)
        store_ctx == get_nearest_store_for_customer(customers, stores,
                                                    customer_id)
        message == mask_text(user_message)
        customer == mask_customer_context(customer_ctx)
    IN  IF store_ctx.kind = "raised" THEN process_message_except(store_ctx)
        ELSE IF customer.kind = "raised" THEN process_message_except(customer)
        ELSE LET pii_mapping ==
                     DictUpdate(DictUpdate(carried, message[2]),
                                customer.mapping)
                 user_prompt ==
                     user_prompt_text(
                         build_prompt(customer.context, store_ctx, rag_docs,
                                      message[1]))
                 response_masked ==
                     call_llm_with_system(api_key, user_prompt, completion)
             IN  IF response_masked.kind = "raised"
                 THEN process_message_except(response_masked)
                 ELSE Response(unmask_text(response_masked.text, pii_mapping))

(***************************************************************************)
(* State.                                                                  *)
(*   text .. mpc   the masking round trip of the __main__ demo of          *)
(*                 masking.py and of test_setup.py: mask_text, then        *)
(*                 unmask_text; mpc is its position                        *)
(*   stores        the stores table                                        *)
(*   nearest       what get_nearest_store_for_customer has returned, per   *)
(*                 customer id asked for, with the branch it took          *)
(*   pdf_dir       the files of PDF_DIR                                    *)
(*   vs_dir        whether VECTOR_STORE_DIR exists                         *)
(*   rag_system    whether the process has made its RAGSystem              *)
(*   collection    the collection "retail_knowledge"                       *)
(*   bpc, build_chunks, build_i                                            *)
(*                 the position of build_vector_store, its chunks and the  *)
(*                 offset of its next batch                                *)
(*   build_samples whether that build wrote the sample documents           *)
(*   retrieved     the last call of RAGSystem.retrieve: whether it found   *)
(*                 the collection, its result, and the position of the     *)
(*                 build (bpc) during which it ran                         *)
(*   groq_api_key  whether GROQ_API_KEY is set                             *)
(*   tpc           the position of process_message                         *)
(*   user_message, customer_id                                             *)
(*                 the arguments of process_message                        *)
(*   customer_ctx .. prompt                                                *)
(*                 the locals of process_message                           *)
(*   warnings      the st.warning messages of the turn                     *)
(*   requests      the requests sent to the provider in the turn           *)
(*   calls         the calls process_message has made in the turn, in      *)
(*                 order, each with its argument and whether it raised     *)
(*   returned      what process_message gave its caller                    *)
(*   initialized   st.session_state.initialized of the browser session     *)
(*   app_init      what the last initialize_app found and did: whether a   *)
(*                 build had been attempted and had left a whole index     *)
(*   index_deleted VECTOR_STORE_DIR was deleted and no build has started   *)
(*                 since                                                   *)
(*   client_stale  the directory was deleted under the PersistentClient    *)
(*                 of the running process                                  *)
(*   stale_uses    the retrievals made while index_deleted                 *)
(*   lat1 .. lon2  the two points given to calculate_distance              *)
(*   distance      what calculate_distance(lat1, lon1, lat2, lon2) gave    *)
(*   distance_back what calculate_distance(lat2, lon2, lat1, lon1) gave    *)
(*   dpc           "input", "measured" or "off"                            *)
(*   selected_customer_id, messages                                        *)
(*                 st.session_state of a browser session: the customer of  *)
(*                 the chat and the chat history; each entry of messages   *)
(*                 holds its role and the customer_id of the script run    *)
(*                 that appended it                                        *)
(*   last_turn     the arguments, the completion and the result of the     *)
(*                 session's last process_message call                     *)
(*   previous_turn the same of the call before that one                    *)
(***************************************************************************)
VARIABLES text, masked_text, mapping, unmasked_text, mpc

VARIABLES stores, nearest

VARIABLES pdf_dir, vs_dir, rag_system, collection, bpc, build_chunks,
          build_i, build_samples, retrieved

VARIABLES groq_api_key, tpc, user_message, customer_id, customer_ctx,
          store_ctx,
          masked_message, pii_mapping, masked_customer_ctx, rag_docs, prompt,
          warnings, calls, requests, returned

VARIABLES initialized, app_init, index_deleted, client_stale, stale_uses

VARIABLES lat1, lon1, lat2, lon2, distance, distance_back, dpc

VARIABLES selected_customer_id, messages, last_turn, previous_turn

maskVars == << text, masked_text, mapping, unmasked_text, mpc >>

geoVars == << stores, nearest >>

ragVars == << pdf_dir, vs_dir, rag_system, collection, bpc, build_chunks,
              build_i, build_samples, retrieved >>

turnLocals == << customer_ctx, store_ctx, masked_message, pii_mapping, masked_customer_ctx,
                 rag_docs, prompt >>

turnVars == << groq_api_key, tpc, user_message, customer_id, turnLocals,
               warnings, calls, requests, returned >>

appVars == << initialized, app_init, index_deleted, client_stale, stale_uses >>

distVars == << lat1, lon1, lat2, lon2, distance, distance_back, dpc >>

sessionVars == << selected_customer_id, messages, last_turn, previous_turn >>

vars == << maskVars, geoVars, ragVars, turnVars, appVars, distVars,
          sessionVars >>

\* the values a part of the state keeps while another part is checked
MaskIdle ==
    /\ text = << >>
    /\ masked_text = << >>
    /\ mapping = << >>
    /\ unmasked_text = << >>
    /\ mpc = "off"

GeoIdle ==
    /\ stores = << >>
    /\ nearest = { }

NotRetrieved ==
    [called |-> FALSE, found |-> FALSE, result |-> Null, during |-> "none"]

RagIdle ==
    /\ pdf_dir = { }
    /\ vs_dir = FALSE
    /\ rag_system = FALSE
    /\ collection = NoCollection
    /\ bpc = "off"
    /\ build_chunks = << >>
    /\ build_i = 0
    /\ build_samples = FALSE
    /\ retrieved = NotRetrieved

\* process_message has not returned anything
NoReturn == [kind |-> "none"]

\* build_prompt has not run
NoPrompt == [kind |-> "none"]

\* the locals of process_message before its first line
LocalsUnset ==
    /\ customer_ctx = EmptyDict
    /\ store_ctx = EmptyDict
    /\ masked_message = << >>
    /\ pii_mapping = << >>
    /\ masked_customer_ctx = EmptyDict
    /\ rag_docs = RetrievedList(0)
    /\ prompt = NoPrompt

TurnIdle ==
    /\ groq_api_key = FALSE
    /\ tpc = "off"
    /\ user_message = << >>
    /\ customer_id = 0
    /\ LocalsUnset
    /\ warnings = << >>
    /\ calls = << >>
    /\ requests = << >>
    /\ returned = NoReturn

\* calculate_distance was not called
NotMeasured == [kind |-> "none"]

DistIdle ==
    /\ lat1 = Null
    /\ lon1 = Null
    /\ lat2 = Null
    /\ lon2 = Null
    /\ distance = NotMeasured
    /\ distance_back = NotMeasured
    /\ dpc = "off"

\* process_message was not called in the session
NoTurn == [kind |-> "none"]

SessionIdle ==
    /\ selected_customer_id = 0
    /\ messages = << >>
    /\ last_turn = NoTurn
    /\ previous_turn = NoTurn

\* initialize_app has not run in the session
NotInitialized ==
    [ran |-> FALSE, dir_present |-> FALSE, build |-> FALSE,
     attempted |-> FALSE, complete |-> FALSE]

AppIdle ==
    /\ initialized = FALSE
    /\ app_init = NotInitialized
    /\ index_deleted = FALSE
    /\ client_stale = FALSE
    /\ stale_uses = 0

(***************************************************************************)
(* calculate_distance on two points, in both orders.  The points are the   *)
(* places of the stores and customers, the origin, a pole, and two pairs   *)
(* of opposite points of the globe.                                        *)
(***************************************************************************)
DistPoints ==
    { << 407589, -739851 >>, << 407829, -739654 >>, << 407549, -739840 >>,
      << 407592, -739855 >>, << 407545, -739835 >>, << 0, -739851 >>,
      << 0, 0 >>, << 210425, 1680484 >>, << -210425, -119516 >>,
      << 533165, -869685 >>, << -533165, 930315 >>, << 900000, 0 >> }

\* what a call of calculate_distance on numbers gives its caller: the
\* rounded metres (here in tenths), or the ValueError of math.sqrt
Measured(a1, o1, a2, o2) ==
    IF calculate_distance_domain_error(a1, o1, a2, o2)
    THEN Raised("ValueError")
    ELSE [kind |-> "metres",
          value |-> calculate_distance(a1, o1, a2, o2)]

DistInit ==
    /\ \E p, q \in DistPoints :
           /\ lat1 = Real(p[1])
           /\ lon1 = Real(p[2])
           /\ lat2 = Real(q[1])
           /\ lon2 = Real(q[2])
    /\ distance = NotMeasured
    /\ distance_back = NotMeasured
    /\ dpc = "input"
    /\ MaskIdle
    /\ GeoIdle
    /\ RagIdle
    /\ TurnIdle
    /\ AppIdle
    /\ SessionIdle

\* calculate_distance(lat1, lon1, lat2, lon2) and
\* calculate_distance(lat2, lon2, lat1, lon1)
Measure ==
    /\ dpc = "input"
    /\ distance' = Measured(lat1, lon1, lat2, lon2)
    /\ distance_back' = Measured(lat2, lon2, lat1, lon1)
    /\ dpc' = "measured"
    /\ UNCHANGED << lat1, lon1, lat2, lon2, maskVars, geoVars, ragVars,
                    turnVars, appVars, sessionVars >>

SpecDist == DistInit /\ [][Measure]_vars

(***************************************************************************)
(* A browser session of main: each run of the script reads the search box  *)
(* and the select box, and calls process_message if a message was typed.   *)
(* The key is set, and the stores and the retrieved documents are fixed.   *)
(***************************************************************************)
MaxMessages == 4

\* the customers of the select box
SessionCustomers == {1, 2, 5}

SessionStores == SelectStores({1, 2, 3}, 1)

\* the messages typed: no PII, two phones
SessionTexts ==
    { << "x" >>,
      << "5", "5", "5", "-", "1", "2", "3", "-", "4", "5", "6", "7" >>
          \o << " " >> \o << "5", "5", "5", "1", "2", "3", "4", "5", "6", "7" >> }

\* the completions of the provider: they echo [PHONE_1], or [EMAIL_1] and
\* [PHONE_2]
SessionCompletions ==
    { c \in Completions :
          c.kind = "stream" /\ HasPlaceholderShape(full_response(c.fragments)) }

\* pii_mapping at the end of the process_message call of a turn: the
\* merged table, or the table of the message alone when
\* mask_customer_context raised; no table before the first turn
TurnTable(turn) ==
    IF turn = NoTurn THEN << >>
    ELSE LET customer == mask_customer_context(
                             get_customer_context(CustomersTable,
                                                  turn.customer_id))
         IN  IF customer.kind = "raised"
             THEN mask_text(turn.user_message)[2]
             ELSE DictUpdate(mask_text(turn.user_message)[2],
                             customer.mapping)

\* process_message(user_message, customer_id) with the table of
\* process_message_from starting from the table of the session's last call
process_message_KeptTable(message, cid, completion) ==
    process_message_from(TurnTable(last_turn), TRUE, CustomersTable, SessionStores,
                         RetrievedList(0), completion, message, cid)

\* process_message(user_message, customer_id): mask_text starts its table
\* with "mapping = {}" (masking.py, line 28)
process_message(message, cid, completion) ==
    process_message_from(<< >>, TRUE, CustomersTable, SessionStores,
                         RetrievedList(0), completion, message, cid)

SessionInit ==
    /\ selected_customer_id = 1
    /\ messages = << >>
    /\ last_turn = NoTurn
    /\ previous_turn = NoTurn
    /\ MaskIdle
    /\ GeoIdle
    /\ RagIdle
    /\ TurnIdle
    /\ AppIdle
    /\ DistIdle

\* one run of main, lines 176-335: matching is whether the search term
\* leaves a customer in the select box, choice is the customer selected
\* there, typed is the message of the chat input or None
ScriptRun(matching, choice, typed, completion) ==
    LET cid == IF matching THEN choice ELSE 1
        switched == matching /\ selected_customer_id # choice
        shown == IF switched THEN << >> ELSE messages
        response == process_message(typed, cid, completion)
    IN  /\ typed # None => Len(shown) + 2 <= MaxMessages
        /\ selected_customer_id' = IF matching THEN choice
                                   ELSE selected_customer_id
        /\ IF typed = None
           THEN /\ messages' = shown
                /\ UNCHANGED << last_turn, previous_turn >>
           ELSE /\ messages' = shown \o
                       << [role |-> "user", customer_id |-> cid],
                          [role |-> "assistant", customer_id |-> cid] >>
                /\ last_turn' = [kind |-> "turn", user_message |-> typed,
                                 customer_id |-> cid,
                                 completion |-> completion,
                                 response |-> response]
                /\ previous_turn' = last_turn
        /\ UNCHANGED << maskVars, geoVars, ragVars, turnVars, appVars,
                        distVars >>

\* what the widgets of a run can hold: a search term that matches no
\* customer, or a customer chosen among those a term leaves
SessionWidgets ==
    { << FALSE, 1 >> } \cup { << TRUE, c >> : c \in SessionCustomers }

SessionNext ==
    \E w \in SessionWidgets :
        \/ \E completion \in { Completion(<< >>) } :
               ScriptRun(w[1], w[2], None, completion)
        \/ \E typed \in SessionTexts, completion \in SessionCompletions :
               ScriptRun(w[1], w[2], typed, completion)

SpecSession == SessionInit /\ [][SessionNext]_vars

(***************************************************************************)
(* The masking round trip.                                                 *)
(***************************************************************************)
MaskInit ==
    /\ text \in Texts \cup PlaceholderTexts
    /\ masked_text = << >>
    /\ mapping = << >>
    /\ unmasked_text = << >>
    /\ mpc = "input"
    /\ GeoIdle
    /\ RagIdle
    /\ TurnIdle
    /\ AppIdle
    /\ DistIdle
    /\ SessionIdle

\* masked, mapping = mask_text(original)
MaskText ==
    /\ mpc = "input"
    /\ LET r == mask_text(text)
       IN  /\ masked_text' = r[1]
           /\ mapping' = r[2]
    /\ mpc' = "masked"
    /\ UNCHANGED << text, unmasked_text, geoVars, ragVars, turnVars, appVars, distVars, sessionVars >>

\* unmasked = unmask_text(masked, mapping)
UnmaskText ==
    /\ mpc = "masked"
    /\ unmasked_text' = unmask_text(masked_text, mapping)
    /\ mpc' = "unmasked"
    /\ UNCHANGED << text, masked_text, mapping, geoVars, ragVars, turnVars, appVars, distVars, sessionVars >>

MaskNext == MaskText \/ UnmaskText

SpecMask == MaskInit /\ [][MaskNext]_vars

(***************************************************************************)
(* The nearest-store resolver, called for any customer id (the sidebar of  *)
(* main, process_message and test_distances.py call it).                   *)
(***************************************************************************)
GeoInit ==
    /\ stores \in StoreTables
    /\ nearest = { }
    /\ MaskIdle
    /\ RagIdle
    /\ TurnIdle
    /\ AppIdle
    /\ DistIdle
    /\ SessionIdle

\* nearest_store = get_nearest_store_for_customer(customer_id)
GetNearestStore(cid) ==
    /\ \A n \in nearest : n.customer_id # cid
    /\ nearest' = nearest \cup
           { [customer_id |-> cid,
              fallback |-> TakesFallback(FetchCustomer(CustomersTable, cid)),
              result |-> get_nearest_store_for_customer(CustomersTable, stores,
                                                        cid)] }
    /\ UNCHANGED << stores, maskVars, ragVars, turnVars, appVars, distVars, sessionVars >>

GeoNext == \E cid \in CustomerIds : GetNearestStore(cid)

SpecGeo == GeoInit /\ [][GeoNext]_vars

(***************************************************************************)
(* The retrieval index.  A build is followed step by step, because the     *)
(* persistent collection is visible to a retrieve between its steps:       *)
(* load and split, delete_collection, create_collection, one add per       *)
(* batch, return.  The files of PDF_DIR change only between builds.        *)
(***************************************************************************)
\* the directories a user can leave: any of UserFiles, with or without the
\* sample files a build has written
Corpora ==
    { u \cup x : u \in SUBSET UserFiles, x \in { { }, SampleFiles } }

BuildOver == bpc \in {"idle", "returned", "raised"}

MaxStaleUses == 1

\* what retrieve can give through a client whose directory was deleted: the
\* collection is not found, or it is still found and the query raises or
\* returns up to k documents
StaleRetrievals(k) ==
    { [found |-> FALSE, result |-> RetrievedList(0)],
      [found |-> TRUE, result |-> Raised("query")] }
        \cup { [found |-> TRUE, result |-> RetrievedList(n)] : n \in 0..k }

RagInit ==
    /\ pdf_dir \in SUBSET UserFiles
    /\ vs_dir = FALSE
    /\ rag_system = FALSE
    /\ collection = NoCollection
    /\ bpc = "idle"
    /\ build_chunks = << >>
    /\ build_i = 0
    /\ build_samples = FALSE
    /\ retrieved = NotRetrieved
    /\ MaskIdle
    /\ GeoIdle
    /\ TurnIdle
    /\ AppIdle
    /\ DistIdle
    /\ SessionIdle

\* get_rag_system(): the first call of a process makes the RAGSystem, whose
\* PersistentClient makes VECTOR_STORE_DIR
GetRagSystem ==
    /\ rag_system' = TRUE
    /\ vs_dir' = (vs_dir \/ ~rag_system)

\* a user adds or removes files of PDF_DIR
ChangeCorpus(dir) ==
    /\ BuildOver
    /\ dir # pdf_dir
    /\ SampleFiles \subseteq dir => SampleFiles \subseteq pdf_dir
    /\ pdf_dir' = dir
    /\ bpc' = "idle"
    /\ UNCHANGED << vs_dir, rag_system, collection, build_chunks, build_i, build_samples,
                    retrieved, maskVars, geoVars, turnVars,
                    appVars, distVars, sessionVars >>

\* build_vector_store, lines 41-82: the RAGSystem is got, the samples are
\* written if no file is found, and the files are loaded and split; with no
\* document the build returns at line 73
BuildStart ==
    /\ GetRagSystem
    /\ pdf_dir' = DirAfterSamples(pdf_dir)
    /\ build_chunks' = LoadAndSplit(FilesRead(pdf_dir))
    /\ build_i' = 0
    /\ build_samples' = (ListFiles(pdf_dir) = << >>)
    /\ bpc' = IF LoadAndSplit(FilesRead(pdf_dir)) = << >>
              THEN "returned" ELSE "loaded"
    /\ index_deleted' = FALSE
    /\ UNCHANGED << collection, retrieved >>

\* build_vector_store, lines 41-82, when some document loads
BuildLoad ==
    /\ BuildOver
    /\ LoadAndSplit(FilesRead(pdf_dir)) # << >>
    /\ BuildStart
    /\ UNCHANGED << initialized, app_init, client_stale, stale_uses, maskVars, distVars, sessionVars,
                    geoVars, turnVars >>

\* build_vector_store, lines 41-73, when no document loads: it returns
BuildLoadNothing ==
    /\ BuildOver
    /\ LoadAndSplit(FilesRead(pdf_dir)) = << >>
    /\ BuildStart
    /\ UNCHANGED << initialized, app_init, client_stale, stale_uses, maskVars, distVars, sessionVars,
                    geoVars, turnVars >>

\* lines 85-88: self.client.delete_collection(self.collection_name)
BuildDelete ==
    /\ bpc = "loaded"
    /\ collection' = NoCollection
    /\ bpc' = "deleted"
    /\ UNCHANGED << pdf_dir, vs_dir, rag_system, build_chunks, build_i, build_samples,
                    retrieved, maskVars, geoVars, turnVars,
                    appVars, distVars, sessionVars >>

\* lines 90-93: self.client.create_collection(...), which writes under
\* VECTOR_STORE_DIR
BuildCreate ==
    /\ bpc = "deleted"
    /\ collection' = EmptyCollection
    /\ vs_dir' = TRUE
    /\ client_stale' = FALSE
    /\ bpc' = "adding"
    /\ UNCHANGED << pdf_dir, rag_system, build_chunks, build_i, build_samples,
                    retrieved, initialized, app_init, index_deleted,
                    stale_uses, maskVars, distVars, sessionVars, geoVars, turnVars >>

\* lines 97-109: one batch is embedded and added
BuildAddBatch ==
    /\ bpc = "adding"
    /\ build_i < Len(build_chunks)
    /\ collection' = [collection EXCEPT
                          !.docs = @ \cup Batch(build_chunks, build_i)]
    /\ build_i' = build_i + BatchSize
    /\ UNCHANGED << pdf_dir, vs_dir, rag_system, bpc, build_chunks,
                    build_samples, retrieved,
                    maskVars, geoVars, turnVars,
                    appVars, distVars, sessionVars >>

\* line 100: self.embedding_model.encode(texts) raises, and so does the build
BuildEncodeRaises ==
    /\ bpc = "adding"
    /\ build_i < Len(build_chunks)
    /\ bpc' = "raised"
    /\ UNCHANGED << pdf_dir, vs_dir, rag_system, collection, build_chunks,
                    build_i, build_samples, retrieved, maskVars, geoVars, turnVars,
                    appVars, distVars, sessionVars >>

\* line 111: the loop is over and the build returns
BuildReturn ==
    /\ bpc = "adding"
    /\ build_i >= Len(build_chunks)
    /\ bpc' = "returned"
    /\ UNCHANGED << pdf_dir, vs_dir, rag_system, collection, build_chunks,
                    build_i, build_samples, retrieved, maskVars, geoVars, turnVars,
                    appVars, distVars, sessionVars >>

\* rag_retrieve(query, k): get_rag_system().retrieve(query, k).  What a
\* client whose directory was deleted under it finds is not determined
Retrieve ==
    /\ bpc # "off"
    /\ GetRagSystem
    /\ IF client_stale
       THEN \E o \in StaleRetrievals(TOP_K_RAG) :
                retrieved' = [called |-> TRUE, found |-> o.found,
                              result |-> o.result,
                              during |-> bpc]
       ELSE \E r \in retrieve(collection, TOP_K_RAG) :
                retrieved' = [called |-> TRUE, found |-> collection.exists,
                              result |-> r,
                              during |-> bpc]
    /\ stale_uses' = IF index_deleted /\ stale_uses < MaxStaleUses
                     THEN stale_uses + 1 ELSE stale_uses
    /\ UNCHANGED << pdf_dir, collection, bpc, build_chunks, build_i,
                    build_samples, initialized, app_init, index_deleted,
                    client_stale, maskVars, distVars, sessionVars, geoVars, turnVars >>

RagNext ==
    \/ \E dir \in Corpora : ChangeCorpus(dir)
    \/ BuildLoad
    \/ BuildLoadNothing
    \/ BuildDelete
    \/ BuildCreate
    \/ BuildAddBatch
    \/ BuildEncodeRaises
    \/ BuildReturn
    \/ Retrieve

SpecRag == RagInit /\ [][RagNext]_vars

(***************************************************************************)
(* The index over the life of the app: a browser session runs              *)
(* initialize_app once, the directory of the index can be deleted (the     *)
(* sidebar of main says to do so after a change of the files), the process  *)
(* starts again, and the builds and retrievals go on.                      *)
(***************************************************************************)
\* the last build ran to its end and the collection holds its chunks
IndexComplete ==
    /\ bpc = "returned"
    /\ build_chunks # << >>
    /\ collection.exists
    /\ { d.document : d \in collection.docs }
           = { build_chunks[k] : k \in 1..Len(build_chunks) }

\* main, lines 183-185, and initialize_app, lines 37-45: the build runs if
\* VECTOR_STORE_DIR does not exist
InitializeApp ==
    /\ ~initialized
    /\ BuildOver
    /\ initialized' = TRUE
    /\ app_init' = [ran |-> TRUE, dir_present |-> vs_dir, build |-> ~vs_dir,
                    attempted |-> bpc # "idle", complete |-> IndexComplete]
    /\ IF vs_dir
       THEN UNCHANGED << ragVars, index_deleted >>
       ELSE BuildStart
    /\ UNCHANGED << client_stale, stale_uses, maskVars, distVars, sessionVars, geoVars, turnVars >>

\* the user deletes VECTOR_STORE_DIR, under the client of the process if it
\* has one
DeleteIndexDir ==
    /\ BuildOver
    /\ vs_dir
    /\ vs_dir' = FALSE
    /\ collection' = NoCollection
    /\ index_deleted' = TRUE
    /\ client_stale' = rag_system
    /\ stale_uses' = 0
    /\ UNCHANGED << pdf_dir, rag_system, bpc, build_chunks, build_i,
                    build_samples, retrieved, initialized, app_init, maskVars, distVars, sessionVars,
                    geoVars, turnVars >>

\* the process ends and a new one starts: no RAGSystem, a new session
Restart ==
    /\ rag_system
    /\ BuildOver
    /\ rag_system' = FALSE
    /\ client_stale' = FALSE
    /\ initialized' = FALSE
    /\ app_init' = NotInitialized
    /\ UNCHANGED << pdf_dir, vs_dir, collection, bpc, build_chunks, build_i,
                    build_samples, retrieved, index_deleted, stale_uses,
                    maskVars, distVars, sessionVars, geoVars, turnVars >>

\* a build through a client whose directory was deleted raises at one of
\* the client's operations
BuildClientRaises ==
    /\ client_stale
    /\ bpc \in {"loaded", "deleted", "adding"}
    /\ bpc' = "raised"
    /\ UNCHANGED << pdf_dir, vs_dir, rag_system, collection, build_chunks,
                    build_i, build_samples, retrieved, appVars, distVars, sessionVars, maskVars,
                    geoVars, turnVars >>

AppNext ==
    \/ BuildLoad
    \/ BuildLoadNothing
    \/ BuildDelete
    \/ BuildCreate
    \/ BuildAddBatch
    \/ BuildEncodeRaises
    \/ BuildReturn
    \/ Retrieve
    \/ InitializeApp
    \/ DeleteIndexDir
    \/ Restart
    \/ BuildClientRaises

SpecApp == RagInit /\ [][AppNext]_vars

(***************************************************************************)
(* A turn of the chat: main calls process_message(prompt, customer_id) for *)
(* the message typed, and process_message runs its steps in order: the two *)
(* lookups, the masking of the message and of the customer context, the    *)
(* retrieval, then the prompt, the LLM call and the unmasking.  The stores *)
(* table, the index and the key are what the process finds when it starts: *)
(* the index was never built, or python rag.py has built it from the       *)
(* sample files.                                                           *)
(***************************************************************************)
MaxTurnPieces == 1

TurnTexts == Concats(MaxTurnPieces)

\* no store; three located stores; a located store and one without latitude
TurnStoreTables ==
    { SelectStores({ }, 1), SelectStores({1, 2, 3}, 1), SelectStores({1, 5}, 1) }

TurnInit ==
    /\ groq_api_key \in BOOLEAN
    /\ tpc = "waiting"
    /\ user_message = << >>
    /\ customer_id = 0
    /\ LocalsUnset
    /\ warnings = << >>
    /\ calls = << >>
    /\ requests = << >>
    /\ returned = NoReturn
    /\ stores \in TurnStoreTables
    /\ nearest = { }
    /\ \/ pdf_dir = { } /\ vs_dir = FALSE /\ collection = NoCollection
       \/ /\ pdf_dir = SampleFiles
          /\ vs_dir = TRUE
          /\ collection = BuiltCollection({ })
    /\ rag_system = FALSE
    /\ bpc = "idle"
    /\ build_chunks = << >>
    /\ build_i = 0
    /\ build_samples = FALSE
    /\ retrieved = NotRetrieved
    /\ MaskIdle
    /\ AppIdle
    /\ DistIdle
    /\ SessionIdle

\* main, lines 317-328: response = process_message(prompt, customer_id)
Submit(message, cid) ==
    /\ tpc = "waiting"
    /\ user_message' = message
    /\ customer_id' = cid
    /\ tpc' = "called"
    /\ UNCHANGED << groq_api_key, turnLocals, warnings, calls, requests,
                    returned,
                    maskVars, geoVars, ragVars, appVars, distVars, sessionVars >>

\* main, lines 331-335: the response is shown and kept, and st.rerun()
\* starts the script again, which waits for the next message
Rerun ==
    /\ tpc = "returned"
    /\ user_message' = << >>
    /\ customer_id' = 0
    /\ customer_ctx' = EmptyDict
    /\ store_ctx' = EmptyDict
    /\ masked_message' = << >>
    /\ pii_mapping' = << >>
    /\ masked_customer_ctx' = EmptyDict
    /\ rag_docs' = RetrievedList(0)
    /\ prompt' = NoPrompt
    /\ warnings' = << >>
    /\ calls' = << >>
    /\ requests' = << >>
    /\ returned' = NoReturn
    /\ tpc' = "waiting"
    /\ UNCHANGED << groq_api_key, maskVars, geoVars, ragVars, appVars, distVars, sessionVars >>

\* an exception reaches the handler of process_message, after the calls of
\* log: the turn is over
TurnExcept(e, log) ==
    /\ calls' = calls \o log
    /\ returned' = process_message_except(e)
    /\ tpc' = "returned"

\* lines 144-145: the two lookups; sqlite raises when the database cannot
\* be read
TurnLookup(db_ok) ==
    /\ tpc = "called"
    /\ LET store == get_nearest_store_for_customer(CustomersTable, stores,
                                                   customer_id)
       IN  IF ~db_ok
           THEN /\ TurnExcept(Raised("OperationalError"),
                        << Call("get_customer_context", << customer_id >>, TRUE) >>)
                /\ UNCHANGED << customer_ctx, store_ctx >>
           ELSE /\ customer_ctx' = get_customer_context(CustomersTable,
                                                        customer_id)
                /\ IF store.kind = "raised"
                   THEN /\ TurnExcept(store,
                                << Call("get_customer_context",
                                        << customer_id >>, FALSE),
                                   Call("get_nearest_store_for_customer",
                                        << customer_id >>, TRUE) >>)
                        /\ UNCHANGED store_ctx
                   ELSE /\ calls' = calls \o
                                << Call("get_customer_context",
                                        << customer_id >>, FALSE),
                                   Call("get_nearest_store_for_customer",
                                        << customer_id >>, FALSE) >>
                        /\ store_ctx' = store
                        /\ tpc' = "looked_up"
                        /\ UNCHANGED returned
    /\ UNCHANGED << groq_api_key, user_message, customer_id, masked_message,
                    pii_mapping, masked_customer_ctx, rag_docs, prompt,
                    warnings, requests, maskVars, geoVars, ragVars,
                    appVars, distVars, sessionVars >>

\* lines 147-152: the message is masked, then the customer context, and the
\* table of the context is merged into the table of the message
TurnMask ==
    /\ tpc = "looked_up"
    /\ LET message == mask_text(user_message)
           customer == mask_customer_context(customer_ctx)
       IN  /\ masked_message' = message[1]
           /\ customer_ctx' = customer.input
           /\ IF customer.kind = "raised"
              THEN /\ TurnExcept(customer,
                           << Call("mask_text", user_message, FALSE),
                              Call("mask_customer_context", customer_ctx, TRUE) >>)
                   /\ pii_mapping' = message[2]
                   /\ UNCHANGED masked_customer_ctx
              ELSE /\ calls' = calls \o
                           << Call("mask_text", user_message, FALSE),
                              Call("mask_customer_context", customer_ctx, FALSE) >>
                   /\ pii_mapping' = DictUpdate(message[2], customer.mapping)
                   /\ masked_customer_ctx' = customer.context
                   /\ tpc' = "masked"
                   /\ UNCHANGED returned
    /\ UNCHANGED << groq_api_key, user_message, customer_id, store_ctx,
                    rag_docs, prompt, warnings, requests, maskVars, geoVars,
                    ragVars, appVars, distVars, sessionVars >>

\* lines 154-159 with query as the argument of rag_retrieve: an exception
\* of the retrieval is caught here, shown as a warning, and rag_docs stays []
RetrieveStep(query) ==
    /\ tpc = "masked"
    /\ GetRagSystem
    /\ \E r \in retrieve(collection, TOP_K_RAG) :
           /\ retrieved' = [called |-> TRUE, found |-> collection.exists,
                            result |-> r,
                              during |-> bpc]
           /\ calls' = Append(calls, Call("rag_retrieve", query,
                                          r.kind = "raised"))
           /\ IF r.kind = "raised"
              THEN /\ rag_docs' = RetrievedList(0)
                   /\ warnings' = Append(warnings, r.error)
              ELSE /\ rag_docs' = r
                   /\ UNCHANGED warnings
    /\ tpc' = "retrieved"
    /\ UNCHANGED << groq_api_key, user_message, customer_id, customer_ctx,
                    store_ctx,
                    masked_message, pii_mapping, masked_customer_ctx, prompt,
                    requests, returned, pdf_dir, collection, bpc, build_chunks,
                    build_i, build_samples,
                    maskVars, geoVars, appVars, distVars, sessionVars >>

\* the retrieval step with the message as it was typed
TurnRetrieve_RawQuery == RetrieveStep(user_message)

\* rag_docs = rag_retrieve(masked_message, k=TOP_K_RAG)
TurnRetrieve == RetrieveStep(masked_message)

\* lines 161-170: the prompt is built from the masked context and message,
\* the LLM is called, and its reply is unmasked and returned
TurnRespond(completion) ==
    /\ tpc = "retrieved"
    /\ LET p == build_prompt(masked_customer_ctx, store_ctx, rag_docs,
                             masked_message)
           response_masked ==
               call_llm_with_system(groq_api_key, user_prompt_text(p),
                                    completion)
       IN  /\ prompt' = p
           /\ requests' = requests \o
                  llm_requests(groq_api_key, user_prompt_text(p), completion)
           /\ IF response_masked.kind = "raised"
              THEN TurnExcept(response_masked,
                       << Call("call_llm_with_system", p, TRUE) >>)
              ELSE /\ calls' = calls \o
                           << Call("call_llm_with_system", p, FALSE),
                              Call("unmask_text", response_masked.text, FALSE) >>
                   /\ returned' = Response(unmask_text(response_masked.text,
                                                       pii_mapping))
                   /\ tpc' = "returned"
    /\ UNCHANGED << groq_api_key, user_message, customer_id, customer_ctx,
                    store_ctx,
                    masked_message, pii_mapping, masked_customer_ctx, rag_docs,
                    warnings, maskVars, geoVars, ragVars, appVars, distVars, sessionVars >>

TurnNext ==
    \/ \E message \in TurnTexts, cid \in CustomerIds : Submit(message, cid)
    \/ \E db_ok \in BOOLEAN : TurnLookup(db_ok)
    \/ TurnMask
    \/ TurnRetrieve
    \/ \E completion \in Completions : TurnRespond(completion)
    \/ Rerun

SpecTurn == TurnInit /\ [][TurnNext]_vars

(***************************************************************************)
(* Claims about mask_text and unmask_text, checked under SpecMask.         *)
(***************************************************************************)
\* C1: round trip.  For every text without a placeholder-shaped substring,
\* unmask_text applied to the masked text and the table of mask_text gives
\* the text back, however many phones and emails it holds.
C1_RoundTrip ==
    (mpc = "unmasked" /\ ~HasPlaceholderShape(text)) => unmasked_text = text

\* a round trip over a text that holds two different phones has been made
C1_Witness ==
    /\ mpc = "unmasked"
    /\ ~HasPlaceholderShape(text)
    /\ Len(mapping) >= 2
    /\ \E i \in 1..Len(mapping) : mapping[i][1] = PhonePlaceholder(2)
    /\ unmasked_text = text
    /\ masked_text # text

\* C2: after mask_text no value of the returned table still occurs in the
\* masked text, so no detected phone or email literal reaches the prompt.
C2_NoLiteralInMasked ==
    mpc # "input" =>
        \A i \in 1..Len(mapping) : ~Contains(masked_text, mapping[i][2])

\* C3: within one mask_text call no two placeholders of the table map to
\* the same literal.
C3_OnePlaceholderPerLiteral ==
    mpc # "input" =>
        \A i, j \in 1..Len(mapping) :
            mapping[i][2] = mapping[j][2] => i = j

(***************************************************************************)
(* Claims about get_nearest_store_for_customer, checked under SpecGeo.     *)
(***************************************************************************)
\* the origin of the customer id: absent when no row has the id or a
\* coordinate of the row is NULL
OriginAbsent(cid) ==
    LET customer_row == FetchCustomer(CustomersTable, cid)
    IN  \/ customer_row = Null
        \/ customer_row.latitude = Null
        \/ customer_row.longitude = Null

AllStoresLocated ==
    \A k \in 1..Len(stores) :
        stores[k].latitude # Null /\ stores[k].longitude # Null

DistanceTo(cid, k) ==
    LET customer_row == FetchCustomer(CustomersTable, cid)
    IN  calculate_distance(customer_row.latitude, customer_row.longitude,
                           stores[k].latitude, stores[k].longitude)

\* the first store in scan order at minimal distance
FirstNearest(cid) ==
    CHOOSE k \in 1..Len(stores) :
        /\ \A j \in 1..Len(stores) :
               DistanceTo(cid, k) <= DistanceTo(cid, j)
        /\ \A j \in 1..(k - 1) :
               DistanceTo(cid, j) > DistanceTo(cid, k)

\* C4: for every customer whose latitude and longitude are both present
\* (any number) and every non-empty table of located stores, the result is
\* the first store in scan order at minimal distance, with that distance.
C4_NearestSelection ==
    \A n \in nearest :
        (~OriginAbsent(n.customer_id) /\ stores # << >> /\ AllStoresLocated)
            => n.result = StoreDict(stores[FirstNearest(n.customer_id)],
                                    DistanceTo(n.customer_id,
                                               FirstNearest(n.customer_id)))

\* C5: with an absent origin the call does not raise and returns the first
\* store with the sentinel distance, and the fallback is taken only then.
C5_AbsentOriginFallback ==
    \A n \in nearest :
        /\ OriginAbsent(n.customer_id) =>
               /\ n.result.kind # "raised"
               /\ stores # << >> =>
                      n.result = StoreDict(stores[1], DefaultDistance)
        /\ n.fallback => OriginAbsent(n.customer_id)

\* C6: with an empty stores table the call returns the empty dict and does
\* not raise, with coordinates and on the absent-origin fallback alike.
C6_EmptyStores ==
    stores = << >> => \A n \in nearest : n.result = EmptyDict

\* the resolver has answered on an empty table for a customer with
\* coordinates and for one without
C6_Witness ==
    /\ stores = << >>
    /\ \E n \in nearest : ~n.fallback /\ n.result = EmptyDict
    /\ \E n \in nearest : n.fallback /\ n.result = EmptyDict

(***************************************************************************)
(* Claims about the retrieval index, checked under SpecRag.                *)
(***************************************************************************)
\* C8: a retrieve call that finds no collection (the index was never built,
\* or the build failed before it made one, or it loaded no document)
\* returns the empty list and does not raise.
C8_RetrievalFallback ==
    (retrieved.called /\ ~retrieved.found)
        => retrieved.result = RetrievedList(0)

\* a retrieve was made after a build that loaded no document and returned,
\* with no collection there
C8_Witness ==
    /\ bpc = "returned"
    /\ build_chunks = << >>
    /\ ~collection.exists
    /\ retrieved.called
    /\ ~retrieved.found
    /\ retrieved.result = RetrievedList(0)

\* the documents of the collection, and the chunks of the files of PDF_DIR
CollectionDocuments == { d.document : d \in collection.docs }

CorpusChunks ==
    LET chunks == LoadAndSplit(ListFiles(pdf_dir))
    IN  { chunks[k] : k \in 1..Len(chunks) }

\* C9: when build_vector_store returns, the collection holds exactly the
\* chunks of the current corpus and nothing an earlier build inserted.
C9_WholesaleReplacement ==
    bpc = "returned" => CollectionDocuments = CorpusChunks

(***************************************************************************)
(* Claims about process_message, checked under SpecTurn.                   *)
(***************************************************************************)
\* C7: retrieval uses the masked message only.  In every turn, each call
\* of rag_retrieve comes after a call of mask_text on the user message, its
\* query is the masked message mask_text returns for it, and the query
\* differs from the raw message whenever mask_text has masked something.
C7_RetrievalUsesMasked ==
    \A i \in 1..Len(calls) :
        calls[i].fn = "rag_retrieve" =>
            /\ \E j \in 1..(i - 1) :
                   /\ calls[j].fn = "mask_text"
                   /\ calls[j].arg = user_message
            /\ calls[i].arg = mask_text(user_message)[1]
            /\ mask_text(user_message)[2] # << >> =>
                   calls[i].arg # user_message

\* a turn whose message holds a phone or an email has called rag_retrieve,
\* with the placeholder in the query
C7_Witness ==
    /\ tpc \in {"retrieved", "returned"}
    /\ mask_text(user_message)[2] # << >>
    /\ \E i \in 1..Len(calls) :
           /\ calls[i].fn = "rag_retrieve"
           /\ calls[i].arg = masked_message
           /\ calls[i].arg # user_message

\* the calls of the turn that raised
TurnFailures ==
    { calls[i].fn : i \in { k \in 1..Len(calls) : calls[k].raised } }

\* C10 as stated: process_message never propagates an exception, and any
\* failure of a step of the turn, the retrieval included, makes the turn
\* return the apology string.
C10_AnyFailureApology ==
    /\ returned.kind # "raised"
    /\ (tpc = "returned" /\ TurnFailures # { }) => returned.kind = "apology"

\* C10, amended: process_message never propagates an exception.  A failure
\* of a lookup, of the masking of the customer context or of the LLM call
\* ends the turn with the apology string, which quotes that exception.  A
\* failure of the retrieval alone is caught on its own: it is shown as a
\* warning, the turn goes on without retrieved documents, calls the LLM and
\* returns its unmasked reply.
C10_FailureHandling ==
    /\ returned.kind # "raised"
    /\ tpc = "returned" =>
           /\ TurnFailures \ {"rag_retrieve"} # { } =>
                  /\ returned.kind = "apology"
                  /\ calls[Len(calls)].raised
           /\ TurnFailures \subseteq {"rag_retrieve"} =>
                  returned.kind = "response"
    /\ "rag_retrieve" \in TurnFailures =>
           /\ warnings # << >>
           /\ rag_docs = RetrievedList(0)
           /\ tpc = "returned" =>
                  \E i \in 1..Len(calls) :
                      calls[i].fn = "call_llm_with_system"

\* a turn whose retrieval raised has returned the reply of the LLM
C10_Witness ==
    /\ tpc = "returned"
    /\ TurnFailures = {"rag_retrieve"}
    /\ warnings # << >>
    /\ returned.kind = "response"

\* C11: no leak on error paths.  The apology string process_message
\* returns on a failure holds no literal of the turn's substitution table
\* and no placeholder of it, whatever the text of the exception.
C11_NoLeakOnError ==
    returned.kind = "apology" =>
        \A i \in 1..Len(pii_mapping) :
            /\ ~Contains(returned.text, pii_mapping[i][1])
            /\ ~Contains(returned.text, pii_mapping[i][2])

RECURSIVE Joined(_, _)
\* the fragments k.. of a stream, one after the other
Joined(fragments, k) ==
    IF k > Len(fragments) THEN << >>
    ELSE fragments[k] \o Joined(fragments, k + 1)

\* the positions of the unmask_text calls of the turn
UnmaskCalls == { i \in 1..Len(calls) : calls[i].fn = "unmask_text" }

\* C12: unmask only after full buffering.  unmask_text is never applied
\* before the stream has ended; in a turn whose LLM call streamed a reply it
\* is applied exactly once, as the last call of the turn, to the
\* concatenation of all the fragments (stripped), and the turn returns its
\* result, so that a placeholder of the table that lies in the reply, split
\* across fragments or not, is replaced by its literal.
C12_UnmaskAfterBuffering ==
    /\ tpc # "returned" => UnmaskCalls = { }
    /\ Cardinality(UnmaskCalls) <= 1
    /\ (tpc = "returned" /\ requests # << >>
            /\ requests[1].completion.kind = "stream") =>
           LET whole == Strip(Joined(requests[1].completion.fragments, 1))
           IN  /\ UnmaskCalls = { Len(calls) }
               /\ calls[Len(calls)].arg = whole
               /\ returned = Response(unmask_text(whole, pii_mapping))
               /\ \A i \in 1..Len(pii_mapping) :
                      Contains(whole, pii_mapping[i][1]) =>
                          /\ ~Contains(returned.text, pii_mapping[i][1])
                          /\ Contains(returned.text, pii_mapping[i][2])

\* a turn has returned the reply of a stream that split a placeholder of
\* its table across two fragments, with the literal in its place
C12_Witness ==
    /\ tpc = "returned"
    /\ returned.kind = "response"
    /\ requests # << >>
    /\ requests[1].completion.kind = "stream"
    /\ \E i \in 1..Len(pii_mapping) :
           /\ Contains(Joined(requests[1].completion.fragments, 1),
                       pii_mapping[i][1])
           /\ \A k \in 1..Len(requests[1].completion.fragments) :
                  ~Contains(requests[1].completion.fragments[k],
                            pii_mapping[i][1])
           /\ Contains(returned.text, pii_mapping[i][2])
           /\ ~Contains(returned.text, pii_mapping[i][1])

\* mask_customer_context has returned in the turn
MaskedContextReturned ==
    \E i \in 1..Len(calls) :
        calls[i].fn = "mask_customer_context" /\ ~calls[i].raised

\* C13: mask_customer_context changes only the phone and email fields.
\* The record it returns has the fields of its input, every field but phone
\* and email with the input's value, and the input record is after the call
\* what get_customer_context returned.
C13_FrameEffect ==
    LET original == get_customer_context(CustomersTable, customer_id)
    IN  /\ (\E i \in 1..Len(calls) : calls[i].fn = "mask_customer_context")
               => customer_ctx = original
        /\ MaskedContextReturned =>
               /\ DOMAIN masked_customer_ctx = DOMAIN original
               /\ \A f \in DOMAIN original \ {"phone", "email"} :
                      masked_customer_ctx[f] = original[f]

\* mask_customer_context has returned a record whose phone and email are
\* masked, for a customer that has both
C13_Witness ==
    /\ MaskedContextReturned
    /\ customer_ctx # EmptyDict
    /\ masked_customer_ctx.phone = PhonePlaceholder(1)
    /\ masked_customer_ctx.email = EmailPlaceholder(1)
    /\ customer_ctx.phone # masked_customer_ctx.phone
    /\ customer_ctx.email # masked_customer_ctx.email
    /\ masked_customer_ctx.latitude = customer_ctx.latitude

\* the chunks of the sample documents
SampleChunks ==
    LET chunks == LoadAndSplit(Glob(SampleFiles, ".txt"))
    IN  { chunks[k] : k \in 1..Len(chunks) }

\* C14: fallback corpus.  A build that finds no PDF or text file in the
\* corpus directory writes the sample documents there and loads them, and
\* when it returns the collection exists and holds their chunks.
C14_FallbackCorpus ==
    /\ (build_samples /\ bpc \in {"loaded", "deleted", "adding", "returned",
                                  "raised"}) =>
           /\ SampleFiles \subseteq pdf_dir
           /\ { build_chunks[k] : k \in 1..Len(build_chunks) } = SampleChunks
    /\ (build_samples /\ bpc = "returned") =>
           /\ collection.exists
           /\ collection.docs # { }
           /\ CollectionDocuments = SampleChunks

\* a build that found the directory empty has returned, and the collection
\* holds the sample chunks
C14_Witness ==
    /\ build_samples
    /\ bpc = "returned"
    /\ pdf_dir = SampleFiles
    /\ collection.exists
    /\ CollectionDocuments = SampleChunks
    /\ SampleChunks # { }

\* C15: the presence of the directory of the index is the sole signal for
\* "index built": the initialization of the app runs a build exactly when
\* the directory is absent, and after the directory is deleted the next use
\* of the index triggers a rebuild, so no retrieval uses an index that was
\* deleted and not built again.
C15_IndexBuiltSignal ==
    /\ app_init.ran => (app_init.build <=> ~app_init.dir_present)
    /\ stale_uses = 0

LlmCalls == { i \in 1..Len(calls) : calls[i].fn = "call_llm_with_system" }

\* C16: the LLM step is attempted at most once per user turn.  With a
\* missing credential no request is sent to the provider, and a missing
\* credential or a failure of the provider ends the turn with the apology,
\* the failed call being the last call of the turn, without a second
\* request.
C16_NoRetry ==
    /\ Cardinality(LlmCalls) <= 1
    /\ Len(requests) <= 1
    /\ ~groq_api_key => requests = << >>
    /\ \A i \in LlmCalls :
           /\ Len(requests) = IF groq_api_key THEN 1 ELSE 0
           /\ calls[i].raised =>
                  /\ i = Len(calls)
                  /\ tpc = "returned"
                  /\ returned.kind = "apology"

\* a turn with the credential set whose one request the provider failed
\* has returned the apology
C16_Witness ==
    /\ tpc = "returned"
    /\ groq_api_key
    /\ Len(requests) = 1
    /\ requests[1].completion.kind = "raised"
    /\ returned.kind = "apology"
    /\ \E i \in LlmCalls : calls[i].raised

RECURSIVE CountFrom(_, _, _)
\* the number of non-overlapping occurrences of old in s from index from on
CountFrom(s, old, from) ==
    LET i == FindFrom(s, old, from)
    IN  IF i = 0 THEN 0 ELSE 1 + CountFrom(s, old, i + Len(old))

\* the placeholder tokens of a text
PlaceholderTokens(t) ==
    LET phones == findall(PhoneShape, t)
        emails == findall(EmailShape, t)
    IN  { phones[i] : i \in 1..Len(phones) }
            \cup { emails[i] : i \in 1..Len(emails) }

\* C17: mask_text leaves the placeholder tokens of its input unchanged:
\* every token [PHONE_n] or [EMAIL_n] of the text is still in the masked
\* text, as many times as in the text, never re-masked or wrapped.
C17_PlaceholdersKept ==
    mpc # "input" =>
        \A token \in PlaceholderTokens(text) :
            CountFrom(masked_text, token, 1) >= CountFrom(text, token, 1)

\* C18: calculate_distance is symmetric and zero on identical points: for
\* every two points it returns a distance, the same in both orders, and 0
\* when the two points are the same.
C18_SymmetricZero ==
    dpc = "measured" =>
        /\ distance.kind = "metres"
        /\ distance_back.kind = "metres"
        /\ distance = distance_back
        /\ (lat1 = lat2 /\ lon1 = lon2) => distance.value = 0

\* C19: merging the substitution tables loses no entry: once the message
\* and the customer record are masked, unmasking the masked message with
\* the merged table gives back the user's message (here for messages that
\* hold no placeholder of their own).
C19_MergedTableRestores ==
    (tpc \in {"masked", "retrieved"} /\ ~HasPlaceholderShape(user_message)) =>
        unmask_text(masked_message, pii_mapping) = user_message

\* the phones and the email of Vocabulary
PhonePieces ==
    { << "+", "1", "-", "5", "5", "5", "-", "0", "1", "0", "1" >>,
      << "5", "5", "5", "-", "1", "2", "3", "-", "4", "5", "6", "7" >>,
      << "(", "5", "5", "5", ")", " ", "1", "2", "3", "-", "4", "5", "6", "7" >>,
      << "5", "5", "5", "1", "2", "3", "4", "5", "6", "7" >> }

EmailPiece == << "a", "@", "b", ".", "c", "o" >>

\* the keys of the table are [PHONE_1]..[PHONE_p], then [EMAIL_1]..[EMAIL_e]
NumberedKeys(m) ==
    \E p \in 0..Len(m) :
        /\ \A i \in 1..p : m[i][1] = PhonePlaceholder(i)
        /\ \A j \in 1..(Len(m) - p) : m[p + j][1] = EmailPlaceholder(j)

\* C20: within one mask_text call the placeholders are [PHONE_1]..[PHONE_p]
\* and [EMAIL_1]..[EMAIL_e], given in increasing order with no gap and no
\* repeat, and they are the placeholders of the masked text when the text
\* held none of its own.  A text of one phone, a space and one email is
\* masked to "[PHONE_1] [EMAIL_1]" with a table of exactly those two
\* entries.
C20_PlaceholderNumbering ==
    mpc # "input" =>
        /\ NumberedKeys(mapping)
        /\ ~HasPlaceholderShape(text) =>
               PlaceholderTokens(masked_text) = DictKeys(mapping)
        /\ \A phone \in PhonePieces :
               text = phone \o << " " >> \o EmailPiece =>
                   /\ masked_text = PhonePlaceholder(1) \o << " " >>
                                        \o EmailPlaceholder(1)
                   /\ mapping = << << PhonePlaceholder(1), phone >>,
                                   << EmailPlaceholder(1), EmailPiece >> >>

\* a text of two phones, found by the first and by the fourth pattern, and
\* an email was masked
C20_Witness ==
    /\ mpc # "input"
    /\ Len(mapping) = 3
    /\ mapping[1][2] = << "+", "1", "-", "5", "5", "5", "-", "0", "1", "0", "1" >>
    /\ mapping[2] = << PhonePlaceholder(2),
                       << "5", "5", "5", "-", "1", "2", "3", "-", "4", "5", "6", "7" >> >>
    /\ mapping[3] = << EmailPlaceholder(1), EmailPiece >>

\* the orders in which the entries of a table can be processed
Orderings(m) ==
    LET n == Len(m)
        orders == { f \in [1..n -> 1..n] : \A i, j \in 1..n :
                                                 f[i] = f[j] => i = j }
    IN  { [i \in 1..n |-> m[f[i]]] : f \in orders }

\* no placeholder of the table is inside another placeholder of the table
\* or inside the literal of another entry
DisjointPlaceholders(m) ==
    \A i, j \in 1..Len(m) :
        i # j => /\ ~Contains(m[j][1], m[i][1])
                 /\ ~Contains(m[j][2], m[i][1])

\* C21: unmask_text replaces every occurrence of every placeholder of the
\* table, and its result does not depend on the order of the keys: with a
\* table of mask_text no placeholder is left in the result, every order of
\* the entries gives the same result, and no placeholder is a part of
\* another placeholder or of another entry's literal.
C21_UnmaskOrderFree ==
    mpc = "unmasked" =>
        /\ \A i \in 1..Len(mapping) : ~Contains(unmasked_text, mapping[i][1])
        /\ \A m \in Orderings(mapping) :
               unmask_text(masked_text, m) = unmasked_text
        /\ DisjointPlaceholders(mapping)

\* a masked text that holds one placeholder twice and another once was
\* unmasked with the table of both
C21_Witness ==
    /\ mpc = "unmasked"
    /\ Len(mapping) >= 2
    /\ \E i \in 1..Len(mapping) : CountFrom(masked_text, mapping[i][1], 1) >= 2

\* C22: masking never raises: for every record the database can return,
\* a customer whose email is NULL included, the mask_text and
\* mask_customer_context calls of a turn complete without an exception.
C22_MaskingNeverRaises ==
    \A i \in 1..Len(calls) :
        calls[i].fn \in {"mask_text", "mask_customer_context"} =>
            ~calls[i].raised

\* C23: missing store coordinates are tolerated: when a row of stores has
\* no latitude or no longitude, get_nearest_store_for_customer does not
\* raise and returns a store or the empty dict.
C23_MissingStoreCoordinates ==
    ~AllStoresLocated =>
        \A n \in nearest : n.result.kind \in {"store", "empty"}

\* C24: a build that did not complete is retried: whenever initialize_app
\* finds the directory of the index after a build was attempted, the
\* collection exists and holds all chunks of a build that ran to its end;
\* a build that failed midway or loaded no document has been followed by a
\* new build.
C24_IncompleteBuildRetried ==
    (app_init.ran /\ app_init.attempted /\ app_init.dir_present)
        => app_init.complete

\* C25: rebuild and query are serialized: no retrieve runs between the
\* deletion of the collection by a build and the insertion of its last
\* batch, so no query of a session sees the collection missing or partly
\* filled while the build of another session is going on.
C25_BuildQuerySerialized ==
    retrieved.called => retrieved.during \notin {"deleted", "adding"}

\* the text the provider streamed in the session's last turn, as
\* call_llm_with_system returns it
LastResponseMasked == Strip(full_response(last_turn.completion.fragments))

C27_HistoryOfSelectedCustomer ==
    \A i \in 1..Len(messages) :
        messages[i].role = "assistant" =>
            messages[i].customer_id = selected_customer_id

=============================================================================
